---------------------------- MODULE Spec2Model ----------------------------
(***************************************************************************)
(* A model of flake-ci: the dependency graph (src/graph.rs), the artifact  *)
(* rules of the configuration (src/config.rs) and the build orchestration  *)
(* of App::build_all / App::run (src/app.rs), with the conversions between *)
(* systems, derivations and their texts.                                   *)
(*                                                                         *)
(* Vectors are sequences, so an index of the source is the model's index   *)
(* minus one; Option<usize> is an index or None (0).                       *)
(***************************************************************************)
EXTENDS Naturals, Integers, Sequences, FiniteSets

VARIABLES
    graph,      \* graph.rs Graph<T>: [nodes, children, parents]
    gpc,        \* graph client position: "build", "walked" (chains() consumed it), "hung"
    lastOp,     \* the last Graph call and what it returned
    gchains,    \* what chains() returned
    ndeps,      \* number of mark_dep calls made
    allOk       \* every mark_dep call so far returned Ok

VARIABLES
    buildSection,   \* the [build] section of flake-ci.toml as written by the user
    target,         \* the (category, platform, name) save_artifact is asked about
    cpc,            \* "start", "loaded" (the configuration is read), "asked"
    artifacts,      \* config.rs Build.artifacts after the configuration is loaded
    saved,          \* what save_artifact returned for target
    savedFront      \* what save_artifact returns with the last rule left out

VARIABLES
    dry_run,        \* Cli.dry_run
    cfg_outputs,    \* Config::build_outputs()
    cfg_systems,    \* Config::systems(), a set
    eval_attrs,     \* the evaluator's answer to `nix eval .#<output>.<system>` per output
    eval_log,       \* the evaluator's invocations by App::attributes, in order
    rpc,            \* position of App::run: "start", "systems", "chains", "returned",
                    \* "done" (run returned Ok), "fatal" (run returned Err), "hung"
    sys_todo,       \* the systems the loop of build_all has not come to yet
    rchains,        \* build_all: chains, of (derivation, path) payloads
    ci, ni,         \* build_all: the chain and the node in it the loops are at
    have_ran,       \* build_all: have_ran
    all_succeeded,  \* build_all: all_succeeded
    summary,        \* summary.rs Summary: what was registered, in order
    build_log,      \* the builder's invocations (App::build), in order, with the status returned
    out_dir,        \* the artifact directory: "none", "stale" (of an earlier run), "fresh"
    links,          \* the symlinks made in the artifact directory
    ba_result,      \* what build_all returned
    run_result,     \* what run returned
    exit_status     \* the exit status of the process: <<>> while it runs, then <<code>>

VARIABLES
    tpc,            \* position of the text client: "start", "shown", "parsed"
    tkind,          \* what it converts: "system", "derivation", "text", "check"
    tsystem,        \* a config.rs System
    tderivation,    \* an app.rs Derivation
    ttext,          \* a text: what Display wrote, or the text given to from_str
    tresult,        \* what from_str, or the classification of a check, returned
    tshown          \* what Display wrote for the value from_str returned

VARIABLES
    ppc,            \* position of the rule client: "start", "matched", "parsed"
    pkind,          \* what it does: "name", "system" (Pattern::matches), "rule" (from_str)
    pattern,        \* a config.rs Pattern<T>
    pvalue,         \* the value the pattern is matched with
    pmatched,       \* what Pattern::matches returned
    ptext,          \* the text of a rule of build.artifacts
    prule           \* what OutputPath::from_str returned for the text

gvars == <<graph, gpc, lastOp, gchains, ndeps, allOk>>
cvars == <<buildSection, target, cpc, artifacts, saved, savedFront>>
rvars == <<dry_run, cfg_outputs, cfg_systems, eval_attrs, eval_log, rpc, sys_todo, rchains, ci, ni,
           have_ran, all_succeeded, summary, build_log, out_dir, links, ba_result, run_result,
           exit_status>>
tvars == <<tpc, tkind, tsystem, tderivation, ttext, tresult, tshown>>
pvars == <<ppc, pkind, pattern, pvalue, pmatched, ptext, prule>>
vars == <<gvars, cvars, rvars, tvars, pvars>>

\* Bounds of the model
MaxNodes == 3
MaxDeps == 3
MaxRules == 2
MaxAttrs == 2

None == 0

(***************************************************************************)
(* graph.rs                                                                *)
(***************************************************************************)

\* Graph::new
new == [nodes |-> <<>>, children |-> <<>>, parents |-> <<>>]

\* Graph::add_node
add_node(g, data) ==
    [nodes |-> Append(g.nodes, data),
     children |-> Append(g.children, <<>>),
     parents |-> Append(g.parents, None)]

\* Graph::get_index_of: position of the first node equal to data
get_index_of(g, data) ==
    IF \E i \in 1..Len(g.nodes) : g.nodes[i] = data
    THEN CHOOSE i \in 1..Len(g.nodes) :
            /\ g.nodes[i] = data
            /\ \A j \in 1..(i - 1) : g.nodes[j] # data
    ELSE None

\* The loop of mark_dep (lines 55-63), started at child_index. The loop is
\* deterministic in child_index and the parent pointers never change while it
\* runs, so a walk that has taken more steps than there are nodes is back at a
\* node it has left before and repeats from there for ever: "Diverge".
RECURSIVE cycle_walk(_, _, _)
cycle_walk(parents, child_index, steps) ==
    IF parents[child_index] = None THEN "Ok"
    ELSE IF parents[child_index] = child_index THEN "Circular"
    ELSE IF steps >= Len(parents) THEN "Diverge"
    ELSE cycle_walk(parents, parents[child_index], steps + 1)

\* The linking of mark_dep (lines 50-51)
link(g, parent_index, child_index) ==
    [nodes |-> g.nodes,
     children |-> [g.children EXCEPT ![parent_index] = Append(@, child_index)],
     parents |-> [g.parents EXCEPT ![child_index] = parent_index]]

\* mark_dep that adds a child it does not find
mark_dep_adding(g, parent, child) ==
    LET parent_index == get_index_of(g, parent)
        child_index == get_index_of(g, child)
    IN  IF parent_index = None THEN [g |-> g, res |-> "ParentNotInGraph"]
        ELSE IF child_index = None THEN [g |-> add_node(g, child), res |-> "ChildNotInGraph"]
        ELSE IF parent_index > Len(g.children) THEN [g |-> g, res |-> "NotSetUp"]
        ELSE LET g2 == link(g, parent_index, child_index)
             IN  [g |-> g2, res |-> cycle_walk(g2.parents, child_index, 0)]

\* Graph::mark_dep: the graph it leaves and what it returns
mark_dep(g, parent, child) ==
    LET parent_index == get_index_of(g, parent)
        child_index == get_index_of(g, child)
    IN  IF parent_index = None THEN [g |-> g, res |-> "ParentNotInGraph"]
        ELSE IF child_index = None THEN [g |-> g, res |-> "ChildNotInGraph"]
        ELSE IF parent_index > Len(g.children) THEN [g |-> g, res |-> "NotSetUp"]
        ELSE LET g2 == link(g, parent_index, child_index)
             IN  [g |-> g2, res |-> cycle_walk(g2.parents, child_index, 0)]

\* Graph::len
len(g) == Len(g.nodes)

\* Graph::is_leaf
is_leaf(g, idx) == g.children[idx] = <<>>

\* Graph::data_of
data_of(g, idx) == g.nodes[idx]

\* Graph::parent_of
parent_of(g, idx) == g.parents[idx]

\* reverse forgotten: the chain stays leaf first
reverse_forgotten(s) == s

\* Vec::reverse as chains() uses it (line 142)
reverse(s) == [i \in 1..Len(s) |-> s[Len(s) + 1 - i]]

\* climb that stops after the direct parent
climb_one(g, current, steps) ==
    IF parent_of(g, current) = None THEN <<>> ELSE <<parent_of(g, current)>>

\* The inner loop of chains() (lines 136-141): the parents above current, nearest
\* first, or "Diverge" when the parent pointers never reach None.
RECURSIVE climb(_, _, _)
climb(g, current, steps) ==
    IF parent_of(g, current) = None THEN <<>>
    ELSE IF steps > len(g) THEN "Diverge"
    ELSE LET rest == climb(g, parent_of(g, current), steps + 1)
         IN  IF rest = "Diverge" THEN "Diverge"
             ELSE <<parent_of(g, current)>> \o rest

\* collect that leaves out the parents an earlier chain has already walked
collect_unwalked(g, current, walked) ==
    LET up == climb(g, current, 0)
    IN  IF up = "Diverge" THEN "Diverge"
        ELSE <<current>> \o SelectSeq(up, LAMBDA p : p \notin walked)

\* The body of chains() for an unwalked leaf (lines 132-141): the leaf and every
\* parent above it, walked before or not, leaf first
collect(g, current, walked) ==
    LET up == climb(g, current, 0)
    IN  IF up = "Diverge" THEN "Diverge" ELSE <<current>> \o up

\* GraphWalker::chains over node indices: the for loop from `current` on, with
\* the walked marks and the chains emitted so far.
RECURSIVE chains_loop(_, _, _, _)
chains_loop(g, current, walked, acc) ==
    IF current > len(g) THEN acc
    ELSE IF current \in walked THEN chains_loop(g, current + 1, walked, acc)
    ELSE IF is_leaf(g, current)
         THEN LET current_chain == collect(g, current, walked)
              IN  IF current_chain = "Diverge" THEN "Diverge"
                  ELSE chains_loop(g, current + 1,
                                   walked \cup {current_chain[i] : i \in 1..Len(current_chain)},
                                   Append(acc, reverse(current_chain)))
         ELSE chains_loop(g, current + 1, walked, acc)

\* The chains in the opposite order
RECURSIVE last_first(_)
last_first(cs) == IF cs = <<>> THEN <<>> ELSE Append(last_first(Tail(cs)), Head(cs))

\* chains() that emits the chain of the last leaf first
chains_idx_last_first(g) ==
    LET c == chains_loop(g, 1, {}, <<>>)
    IN  IF c = "Diverge" THEN "Diverge" ELSE last_first(c)

\* GraphWalker::chains, as the indices of the nodes of each chain
chains_idx(g) == chains_loop(g, 1, {}, <<>>)

\* GraphWalker::chains: the payloads (data_of) of each chain
chains(g) ==
    LET c == chains_idx(g)
    IN  IF c = "Diverge" THEN "Diverge"
        ELSE [k \in 1..Len(c) |-> [i \in 1..Len(c[k]) |-> data_of(g, c[k][i])]]

\* The graph client has not started and never runs
GIdle ==
    /\ graph = new
    /\ gpc = "idle"
    /\ lastOp = [op |-> "new"]
    /\ gchains = <<>>
    /\ ndeps = 0
    /\ allOk = TRUE

TIdle ==
    /\ tpc = "idle"
    /\ tkind = "none"
    /\ tsystem = [os |-> "Linux", arch |-> "X86"]
    /\ tderivation = [output |-> <<>>, system |-> [os |-> "Linux", arch |-> "X86"], name |-> <<>>]
    /\ ttext = <<>>
    /\ tresult = [ok |-> FALSE, val |-> <<>>]
    /\ tshown = <<>>

PIdle ==
    /\ ppc = "idle"
    /\ pkind = "none"
    /\ pattern = [kind |-> "Any"]
    /\ pvalue = <<>>
    /\ pmatched = FALSE
    /\ ptext = <<>>
    /\ prule = [ok |-> FALSE, val |-> <<>>]

(***************************************************************************)
(* Text. A string is the sequence of its characters.                       *)
(***************************************************************************)

UpperCase == <<"A", "B", "C", "D", "E", "F", "G", "H", "I", "J", "K", "L", "M", "N", "O", "P", "Q", "R", "S", "T", "U", "V", "W", "X", "Y", "Z">>
LowerCase == <<"a", "b", "c", "d", "e", "f", "g", "h", "i", "j", "k", "l", "m", "n", "o", "p", "q", "r", "s", "t", "u", "v", "w", "x", "y", "z">>

\* char::to_lowercase on ASCII
lower_char(c) ==
    IF \E i \in 1..Len(UpperCase) : UpperCase[i] = c
    THEN LowerCase[CHOOSE i \in 1..Len(UpperCase) : UpperCase[i] = c]
    ELSE c

\* str::to_lowercase
to_lowercase(s) == [i \in 1..Len(s) |-> lower_char(s[i])]

(***************************************************************************)
(* config.rs                                                               *)
(***************************************************************************)

LINUX == <<"l", "i", "n", "u", "x">>
DARWIN == <<"d", "a", "r", "w", "i", "n">>
WINDOWS == <<"w", "i", "n", "d", "o", "w", "s">>
ARM == <<"a", "a", "r", "c", "h", "6", "4">>
X86 == <<"x", "8", "6", "_", "6", "4">>

\* System::x86_linux and the other constructors
x86_linux == [os |-> "Linux", arch |-> "X86"]
x86_darwin == [os |-> "Darwin", arch |-> "X86"]

\* impl Display for OS
os_to_string(os) ==
    CASE os = "Linux" -> LINUX
      [] os = "Darwin" -> DARWIN
      [] os = "Windows" -> WINDOWS

\* impl Display for Arch
arch_to_string(arch) ==
    CASE arch = "X86" -> X86
      [] arch = "Arm" -> ARM

\* impl Display for System
system_to_string(system) ==
    arch_to_string(system.arch) \o <<"-">> \o os_to_string(system.os)

\* enum OS x enum Arch: every System
Systems == {[os |-> o, arch |-> a] : o \in {"Linux", "Darwin", "Windows"}, a \in {"X86", "Arm"}}

\* A winnow parser applied to the input s returns the value and the rest of
\* the input, or fails
parse_ok(v, rest) == [ok |-> TRUE, val |-> v, rest |-> rest]
parse_fail == [ok |-> FALSE, val |-> <<>>, rest |-> <<>>]

\* Parser::parse: the parser must succeed and leave no input
parse_all(r) == IF r.ok /\ r.rest = <<>> THEN [ok |-> TRUE, val |-> r.val]
                ELSE [ok |-> FALSE, val |-> <<>>]

\* A literal as a parser
literal(t, s) ==
    IF Len(s) >= Len(t) /\ SubSeq(s, 1, Len(t)) = t
    THEN parse_ok(t, SubSeq(s, Len(t) + 1, Len(s)))
    ELSE parse_fail

\* fn os
parse_os(s) ==
    IF literal(LINUX, s).ok THEN parse_ok("Linux", literal(LINUX, s).rest)
    ELSE IF literal(DARWIN, s).ok THEN parse_ok("Darwin", literal(DARWIN, s).rest)
    ELSE parse_fail

\* fn arch
parse_arch(s) ==
    IF literal(X86, s).ok THEN parse_ok("X86", literal(X86, s).rest)
    ELSE IF literal(ARM, s).ok THEN parse_ok("Arm", literal(ARM, s).rest)
    ELSE parse_fail

\* fn system
parse_system(s) ==
    LET a == parse_arch(s)
        d == literal(<<"-">>, a.rest)
        o == parse_os(d.rest)
    IN  IF a.ok /\ d.ok /\ o.ok THEN parse_ok([os |-> o.val, arch |-> a.val], o.rest)
        ELSE parse_fail

\* impl FromStr for System
System_from_str(s) == parse_all(parse_system(s))

Digits == <<"0", "1", "2", "3", "4", "5", "6", "7", "8", "9">>

\* The characters fn name takes
is_name_char(c) ==
    \/ \E i \in 1..Len(UpperCase) : UpperCase[i] = c \/ LowerCase[i] = c
    \/ \E i \in 1..Len(Digits) : Digits[i] = c
    \/ c = "_"
    \/ c = "-"

\* fn name: take_while(1.., ..), the longest head of name characters, at least one
parse_name(s) ==
    LET n == IF \A i \in 1..Len(s) : is_name_char(s[i]) THEN Len(s)
             ELSE (CHOOSE i \in 1..Len(s) :
                      ~is_name_char(s[i]) /\ \A j \in 1..(i - 1) : is_name_char(s[j])) - 1
    IN  IF n >= 1 THEN parse_ok(SubSeq(s, 1, n), SubSeq(s, n + 1, Len(s)))
        ELSE parse_fail

\* enum Pattern<T>
Any == [kind |-> "Any"]
Not(v) == [kind |-> "Not", v |-> v]
Specified(v) == [kind |-> "Specified", v |-> v]

\* Pattern::matches with Not taken as Specified
Pattern_matches_specified(self, other) ==
    CASE self.kind = "Any" -> TRUE
      [] self.kind = "Not" -> other = self.v
      [] self.kind = "Specified" -> other = self.v

\* Pattern::matches
Pattern_matches(self, other) ==
    CASE self.kind = "Any" -> TRUE
      [] self.kind = "Not" -> other # self.v
      [] self.kind = "Specified" -> other = self.v

\* OutputPath::matches
OutputPath_matches(self, top_level, system, name) ==
    /\ Pattern_matches(self.top_level, top_level)
    /\ Pattern_matches(self.system, system)
    /\ Pattern_matches(self.name, name)

\* fn star
parse_star(s) == literal(<<"*">>, s)

\* fn not
parse_not(s) ==
    LET b == literal(<<"!">>, s)
    IN  IF b.ok THEN parse_name(b.rest) ELSE parse_fail

\* fn not_system
parse_not_system(s) ==
    LET b == literal(<<"!">>, s)
    IN  IF b.ok THEN parse_system(b.rest) ELSE parse_fail

\* fn name_pattern: the first of star, not, name that succeeds
name_pattern(s) ==
    IF parse_star(s).ok THEN parse_ok(Any, parse_star(s).rest)
    ELSE IF parse_not(s).ok THEN parse_ok(Not(parse_not(s).val), parse_not(s).rest)
    ELSE IF parse_name(s).ok THEN parse_ok(Specified(parse_name(s).val), parse_name(s).rest)
    ELSE parse_fail

\* fn system_pattern: the first of star, not_system, system that succeeds
system_pattern(s) ==
    IF parse_star(s).ok THEN parse_ok(Any, parse_star(s).rest)
    ELSE IF parse_not_system(s).ok
    THEN parse_ok(Not(parse_not_system(s).val), parse_not_system(s).rest)
    ELSE IF parse_system(s).ok
    THEN parse_ok(Specified(parse_system(s).val), parse_system(s).rest)
    ELSE parse_fail

\* fn output_path
output_path(s) ==
    LET t == name_pattern(s)
        d1 == literal(<<".">>, t.rest)
        y == system_pattern(d1.rest)
        d2 == literal(<<".">>, y.rest)
        n == name_pattern(d2.rest)
    IN  IF t.ok /\ d1.ok /\ y.ok /\ d2.ok /\ n.ok
        THEN parse_ok([top_level |-> t.val, system |-> y.val, name |-> n.val], n.rest)
        ELSE parse_fail

\* impl FromStr for OutputPath
OutputPath_from_str(s) == parse_all(output_path(s))

\* The artifacts of Build::default()
default_artifacts ==
    <<[top_level |-> Specified(<<"p", "a", "c", "k", "a", "g", "e", "s">>), system |-> Any, name |-> Not(<<"f", "o", "r", "m", "a", "t", "t", "e", "r">>)]>>

\* The build section of the configuration file: missing (also when there is no
\* file), or present with or without the artifacts key
Absent == [present |-> FALSE, has_artifacts |-> FALSE, artifacts |-> <<>>]
Unset == [present |-> TRUE, has_artifacts |-> FALSE, artifacts |-> <<>>]
Given(rules) == [present |-> TRUE, has_artifacts |-> TRUE, artifacts |-> rules]

\* Build.artifacts as serde fills it: Build::default() for a missing build
\* section (#[serde(default)] on Config.build), Vec::default() for a build
\* section without the artifacts key (#[serde(default)] on Build.artifacts).
load_artifacts(section) ==
    IF ~section.present THEN default_artifacts
    ELSE IF ~section.has_artifacts THEN <<>>
    ELSE section.artifacts

\* save_artifact that archives what any one rule matches
RECURSIVE save_artifact_any(_, _, _, _)
save_artifact_any(rules, top_level, system, name) ==
    IF rules = <<>> THEN FALSE
    ELSE IF OutputPath_matches(Head(rules), top_level, system, name) THEN TRUE
    ELSE save_artifact_any(Tail(rules), top_level, system, name)

\* Config::save_artifact: the loop over build.artifacts from its first rule
RECURSIVE save_artifact(_, _, _, _)
save_artifact(rules, top_level, system, name) ==
    IF rules = <<>> THEN TRUE
    ELSE IF ~OutputPath_matches(Head(rules), top_level, system, name) THEN FALSE
    ELSE save_artifact(Tail(rules), top_level, system, name)

(***************************************************************************)
(* app.rs: derivations and the naming convention of checks                 *)
(***************************************************************************)

\* Derivation::new
Derivation(output, system, name) == [output |-> output, system |-> system, name |-> name]

\* impl Display for Derivation
to_string(derivation) ==
    <<".", "#">> \o derivation.output \o <<".">> \o system_to_string(derivation.system)
        \o <<".">> \o derivation.name

\* fn derivation
parse_derivation(s) ==
    LET o == parse_name(s)
        d1 == literal(<<".">>, o.rest)
        y == parse_system(d1.rest)
        d2 == literal(<<".">>, y.rest)
        n == parse_name(d2.rest)
    IN  IF o.ok /\ d1.ok /\ y.ok /\ d2.ok /\ n.ok
        THEN parse_ok(Derivation(o.val, y.val, n.val), n.rest)
        ELSE parse_fail

\* impl FromStr for Derivation
Derivation_from_str(s) == parse_all(parse_derivation(s))

\* Result values of the functions below
Ok(v) == [ok |-> TRUE, val |-> v]
Err == [ok |-> FALSE, val |-> <<>>]

\* str::strip_suffix('s'), keeping the input when it does not end in 's'
strip_suffix_s(input) ==
    IF input # <<>> /\ input[Len(input)] = "s"
    THEN SubSeq(input, 1, Len(input) - 1)
    ELSE input

\* find_check_type without the plural rule
find_check_type_no_plural(input) ==
    LET i == to_lowercase(input)
    IN  CASE i \in {<<"p", "k", "g">>, <<"p", "a", "c", "k", "a", "g", "e">>} -> Ok(<<"p", "a", "c", "k", "a", "g", "e", "s">>)
          [] i \in {<<"d", "e", "v", "s", "h", "e", "l", "l">>, <<"s", "h", "e", "l", "l">>} -> Ok(<<"d", "e", "v", "S", "h", "e", "l", "l", "s">>)
          [] OTHER -> Err

\* find_check_type
find_check_type(input) ==
    LET i == strip_suffix_s(to_lowercase(input))
    IN  CASE i \in {<<"p", "k", "g">>, <<"p", "a", "c", "k", "a", "g", "e">>} -> Ok(<<"p", "a", "c", "k", "a", "g", "e", "s">>)
          [] i \in {<<"d", "e", "v", "s", "h", "e", "l", "l">>, <<"s", "h", "e", "l", "l">>} -> Ok(<<"d", "e", "v", "S", "h", "e", "l", "l", "s">>)
          [] i \in {<<"n", "i", "x", "o">>, <<"n", "i", "x", "o", "s", "c", "o", "n", "f", "i", "g">>, <<"n", "i", "x", "o", "s", "c", "o", "n", "f", "i", "g", "u", "r", "a", "t", "i", "o", "n">>} -> Ok(<<"n", "i", "x", "o", "s", "C", "o", "n", "f", "i", "g", "u", "r", "a", "t", "i", "o", "n", "s">>)
          [] i \in {<<"d", "a", "r", "w", "i", "n">>, <<"d", "a", "r", "w", "i", "n", "c", "o", "n", "f", "i", "g">>, <<"d", "a", "r", "w", "i", "n", "c", "o", "n", "f", "i", "g", "u", "r", "a", "t", "i", "o", "n">>} -> Ok(<<"d", "a", "r", "w", "i", "n", "C", "o", "n", "f", "i", "g", "u", "r", "a", "t", "i", "o", "n", "s">>)
          [] i \in {<<"h", "o", "m", "e">>, <<"h", "o", "m", "e", "c", "o", "n", "f", "i", "g">>, <<"h", "o", "m", "e", "c", "o", "n", "f", "i", "g", "u", "r", "a", "t", "i", "o", "n">>} -> Ok(<<"h", "o", "m", "e", "C", "o", "n", "f", "i", "g", "u", "r", "a", "t", "i", "o", "n", "s">>)
          [] i \in {<<"s", "y", "s", "t", "e", "m">>, <<"s", "y", "s", "t", "e", "m", "c", "o", "n", "f", "i", "g">>, <<"s", "y", "s", "t", "e", "m", "c", "o", "n", "f", "i", "g", "u", "r", "a", "t", "i", "o", "n">>} -> Ok(<<"s", "y", "s", "t", "e", "m", "C", "o", "n", "f", "i", "g", "s">>)
          [] OTHER -> Err

\* str::split_once('-'): the text before and after the first '-'
split_once(s) ==
    IF \E i \in 1..Len(s) : s[i] = "-"
    THEN LET i == CHOOSE i \in 1..Len(s) : s[i] = "-" /\ \A j \in 1..(i - 1) : s[j] # "-"
         IN  [found |-> TRUE, prefix |-> SubSeq(s, 1, i - 1), suffix |-> SubSeq(s, i + 1, Len(s))]
    ELSE [found |-> FALSE, prefix |-> <<>>, suffix |-> <<>>]

\* get_type_of_check
get_type_of_check(derivation) ==
    LET sp == split_once(derivation.name)
    IN  IF ~sp.found THEN Err ELSE find_check_type(sp.prefix)

\* check_checks_derivation without the comparison of the names
check_checks_same_system(check, drv) ==
    IF check.system = drv.system
    THEN LET sp == split_once(check.name)
         IN  sp.found /\ find_check_type(sp.prefix).ok
                      /\ to_lowercase(find_check_type(sp.prefix).val) = to_lowercase(drv.output)
    ELSE FALSE

\* check_checks_derivation
check_checks_derivation(check, drv) ==
    IF check.system = drv.system
    THEN LET sp == split_once(check.name)
         IN  IF sp.found
             THEN LET check_type == find_check_type(sp.prefix)
                  IN  IF check_type.ok /\ to_lowercase(check_type.val) = to_lowercase(drv.output)
                      THEN to_lowercase(sp.suffix) = to_lowercase(drv.name)
                      ELSE FALSE
             ELSE FALSE
    ELSE FALSE

(***************************************************************************)
(* app.rs: App::build_all, resolving the targets of one system             *)
(***************************************************************************)

\* The output categories of the model's configurations and flakes
Categories == {<<"c", "h", "e", "c", "k", "s">>, <<"p", "a", "c", "k", "a", "g", "e", "s">>, <<"d", "e", "v", "S", "h", "e", "l", "l", "s">>}

\* App::attributes: what the evaluator answers for an output, an error
\* (no such entry) or the attribute names
NotFound == [found |-> FALSE, names |-> <<>>]
Found(names) == [found |-> TRUE, names |-> names]

\* App::derivation_path: the evaluator's drvPath of a derivation, a text that
\* only names the derivation
derivation_path(derivation) == derivation.output \o <<"-">> \o derivation.name \o <<".", "d", "r", "v">>

\* `sets` of build_all before the loop over the outputs: no entry
no_sets == [c \in Categories |-> [present |-> FALSE, items |-> {}]]

\* The loop over the attributes of one output (lines 273-285)
RECURSIVE add_attributes(_, _, _, _, _)
add_attributes(st, output, system, attrs, i) ==
    IF i > Len(attrs) THEN st
    ELSE LET derivation == Derivation(output, system, attrs[i])
             payload == <<derivation, derivation_path(derivation)>>
         IN  add_attributes([st EXCEPT !.sets[output].items = @ \cup {payload},
                                       !.graph = add_node(@, payload)],
                            output, system, attrs, i + 1)

\* The loop over the configured outputs, given up at the first output the
\* evaluator has no entry for
RECURSIVE resolve_outputs_stop(_, _, _, _, _)
resolve_outputs_stop(st, outputs, system, ev, k) ==
    IF k > Len(outputs) THEN st
    ELSE LET output == outputs[k]
             st1 == [st EXCEPT !.sets[output] = [present |-> TRUE, items |-> {}]]
         IN  IF ~ev[output].found
             THEN [st1 EXCEPT !.skipped = Append(@, output)]
             ELSE resolve_outputs_stop(add_attributes(st1, output, system, ev[output].names, 1),
                                       outputs, system, ev, k + 1)

\* The loop over the configured outputs (lines 264-286), from output k on:
\* sets, graph and the outputs registered with skip_output
RECURSIVE resolve_outputs(_, _, _, _, _)
resolve_outputs(st, outputs, system, ev, k) ==
    IF k > Len(outputs) THEN st
    ELSE LET output == outputs[k]
             st1 == [st EXCEPT !.sets[output] = [present |-> TRUE, items |-> {}]]
         IN  IF ~ev[output].found
             THEN resolve_outputs([st1 EXCEPT !.skipped = Append(@, output)],
                                  outputs, system, ev, k + 1)
             ELSE resolve_outputs(add_attributes(st1, output, system, ev[output].names, 1),
                                  outputs, system, ev, k + 1)

\* The mark_dep calls of one check with parent and child exchanged
deps_of_check_reversed(check, sets, order) ==
    LET type_of_check == get_type_of_check(check[1])
    IN  IF ~type_of_check.ok THEN <<>>
        ELSE IF type_of_check.val \notin Categories THEN <<>>
        ELSE IF ~sets[type_of_check.val].present THEN <<>>
        ELSE LET hits == SelectSeq(order[type_of_check.val],
                                   LAMBDA p : check_checks_derivation(check[1], p[1]))
             IN  [j \in 1..Len(hits) |-> <<hits[j], check>>]

\* The mark_dep calls one check leads to (lines 292-306), in the order the set
\* of its category is iterated: (check, derivation) payload pairs
deps_of_check(check, sets, order) ==
    LET type_of_check == get_type_of_check(check[1])
    IN  IF ~type_of_check.ok THEN <<>>
        ELSE IF type_of_check.val \notin Categories THEN <<>>
        ELSE IF ~sets[type_of_check.val].present THEN <<>>
        ELSE LET hits == SelectSeq(order[type_of_check.val],
                                   LAMBDA p : check_checks_derivation(check[1], p[1]))
             IN  [j \in 1..Len(hits) |-> <<check, hits[j]>>]

\* The mark_dep calls of all checks (lines 289-308), checks[i..] in order.
\* `sets` is what is left after sets.remove("checks").
RECURSIVE deps_in_order(_, _, _, _)
deps_in_order(checks, sets, order, i) ==
    IF i > Len(checks) THEN <<>>
    ELSE deps_of_check(checks[i], sets, order) \o deps_in_order(checks, sets, order, i + 1)

\* graph.mark_dep(..)? for each pair in turn, stopping at the first error
RECURSIVE mark_all(_, _, _)
mark_all(g, pairs, i) ==
    IF i > Len(pairs) THEN [g |-> g, res |-> "Ok"]
    ELSE LET r == mark_dep(g, pairs[i][1], pairs[i][2])
         IN  IF r.res # "Ok" THEN r ELSE mark_all(r.g, pairs, i + 1)

\* The orders in which a HashSet may be iterated
SeqsOf(S) == {q \in [1..Cardinality(S) -> S] : \A i, j \in 1..Cardinality(S) : q[i] = q[j] => i = j}

(***************************************************************************)
(* app.rs: App::build_all, building the chains                             *)
(***************************************************************************)

\* Where the loops over chains and nodes stand after a node that did not fail
next_pos(chains_, c, n) == IF n < Len(chains_[c]) THEN <<c, n + 1>> ELSE <<c + 1, 1>>

\* break on a failed node that gives up all remaining chains
break_all_pos(chains_, c, n) == <<Len(chains_) + 1, 1>>

\* Where they stand after the break of a failed node (line 360)
break_pos(chains_, c, n) == <<c + 1, 1>>

\* Marking the rest of the chain blocked (lines 347-359), from node j on
RECURSIVE block_rest(_, _, _, _, _)
block_rest(chain, j, ran, blocks, pre_rec) ==
    IF j > Len(chain) THEN [ran |-> ran, blocks |-> blocks]
    ELSE LET derivation == chain[j][1]
         IN  IF derivation \in ran THEN block_rest(chain, j + 1, ran, blocks, pre_rec)
             ELSE block_rest(chain, j + 1, ran \cup {derivation},
                             Append(blocks, [output |-> derivation.output,
                                             job |-> to_string(derivation),
                                             pre_rec |-> to_string(pre_rec)]),
                             pre_rec)

\* all_succeeded that a failed build leaves as it is
flag_after_kept(status, flag) == flag

\* all_succeeded after a build returned status (line 340)
flag_after(status, flag) == IF status = "Fail" THEN FALSE ELSE flag

\* Summary::new
new_summary == [skipped_outputs |-> <<>>, successes |-> <<>>, fails |-> <<>>,
                skips |-> <<>>, blocks |-> <<>>]

\* The system the program runs on (main.rs system())
host == x86_linux

RIdle ==
    /\ dry_run = FALSE
    /\ cfg_outputs = <<>>
    /\ cfg_systems = {}
    /\ eval_attrs = [c \in Categories |-> NotFound]
    /\ eval_log = <<>>
    /\ rpc = "idle"
    /\ sys_todo = {}
    /\ rchains = <<>>
    /\ ci = 1
    /\ ni = 1
    /\ have_ran = {}
    /\ all_succeeded = TRUE
    /\ summary = new_summary
    /\ build_log = <<>>
    /\ out_dir = "none"
    /\ links = <<>>
    /\ ba_result = FALSE
    /\ run_result = FALSE
    /\ exit_status = <<>>

(***************************************************************************)
(* Loading a configuration and asking it whether a target is archived.     *)
(***************************************************************************)

\* The rules a configuration is written with in the model
CategoryPatterns == {Any, Specified(<<"p", "a", "c", "k", "a", "g", "e", "s">>), Not(<<"p", "a", "c", "k", "a", "g", "e", "s">>)}
SystemPatterns == {Any, Not(x86_darwin)}
NamePatterns == {Any, Not(<<"f", "o", "r", "m", "a", "t", "t", "e", "r">>), Specified(<<"f", "o", "o">>)}
Rules == {[top_level |-> c, system |-> s, name |-> n] :
            c \in CategoryPatterns, s \in SystemPatterns, n \in NamePatterns}
RuleLists == UNION {[1..n -> Rules] : n \in 0..MaxRules}

\* The targets asked about
Targets == {[top_level |-> c, system |-> s, name |-> n] :
            c \in {<<"p", "a", "c", "k", "a", "g", "e", "s">>, <<"c", "h", "e", "c", "k", "s">>}, s \in {x86_linux, x86_darwin},
            n \in {<<"f", "o", "o">>, <<"f", "o", "r", "m", "a", "t", "t", "e", "r">>}}

BuildSections == {Absent, Unset} \cup {Given(r) : r \in RuleLists}

CIdle ==
    /\ buildSection = Absent
    /\ target = CHOOSE t \in Targets : TRUE
    /\ cpc = "idle"
    /\ artifacts = <<>>
    /\ saved = FALSE
    /\ savedFront = FALSE

CInit ==
    /\ GIdle
    /\ RIdle
    /\ TIdle
    /\ PIdle
    /\ buildSection \in BuildSections
    /\ target \in Targets
    /\ cpc = "start"
    /\ artifacts = <<>>
    /\ saved = FALSE
    /\ savedFront = FALSE

\* Config::from_file / Config::default
CLoad ==
    /\ cpc = "start"
    /\ cpc' = "loaded"
    /\ artifacts' = load_artifacts(buildSection)
    /\ UNCHANGED <<buildSection, target, saved, savedFront, gvars, rvars, tvars, pvars>>

\* Config::save_artifact for the target, and for the same configuration
\* without its last rule
CSaveArtifact ==
    /\ cpc = "loaded"
    /\ cpc' = "asked"
    /\ saved' = save_artifact(artifacts, target.top_level, target.system, target.name)
    /\ savedFront' =
        IF artifacts = <<>> THEN FALSE
        ELSE save_artifact(SubSeq(artifacts, 1, Len(artifacts) - 1),
                           target.top_level, target.system, target.name)
    /\ UNCHANGED <<buildSection, target, artifacts, gvars, rvars, tvars, pvars>>

CNext == CLoad \/ CSaveArtifact

SpecConfig == CInit /\ [][CNext]_vars

(***************************************************************************)
(* A client of the graph: any sequence of add_node and mark_dep calls,     *)
(* then one chains() call, which consumes the graph.                       *)
(***************************************************************************)

GInit ==
    /\ CIdle
    /\ RIdle
    /\ TIdle
    /\ PIdle
    /\ graph = new
    /\ gpc = "build"
    /\ lastOp = [op |-> "new"]
    /\ gchains = <<>>
    /\ ndeps = 0
    /\ allOk = TRUE

GAddNode(data) ==
    /\ gpc = "build"
    /\ len(graph) < MaxNodes
    /\ graph' = add_node(graph, data)
    /\ lastOp' = [op |-> "add_node"]
    /\ UNCHANGED <<gpc, gchains, ndeps, allOk, cvars, rvars, tvars, pvars>>

GMarkDep(parent, child) ==
    /\ gpc = "build"
    /\ ndeps < MaxDeps
    /\ LET r == mark_dep(graph, parent, child)
       IN  /\ graph' = r.g
           /\ lastOp' = [op |-> "mark_dep", res |-> r.res, child_index |-> get_index_of(graph, child)]
           /\ gpc' = IF r.res = "Diverge" THEN "hung" ELSE "build"
           /\ allOk' = (allOk /\ r.res = "Ok")
    /\ ndeps' = ndeps + 1
    /\ UNCHANGED <<gchains, cvars, rvars, tvars, pvars>>

GChains ==
    /\ gpc = "build"
    /\ LET c == chains_idx(graph)
       IN  /\ gpc' = IF c = "Diverge" THEN "hung" ELSE "walked"
           /\ gchains' = IF c = "Diverge" THEN <<>> ELSE c
    /\ lastOp' = [op |-> "chains"]
    /\ UNCHANGED <<graph, ndeps, allOk, cvars, rvars, tvars, pvars>>

GNext ==
    \/ \E data \in {0, len(graph)} : GAddNode(data)
    \/ \E parent \in 0..MaxNodes, child \in 0..MaxNodes : GMarkDep(parent, child)
    \/ GChains

SpecGraph == GInit /\ [][GNext]_vars

(***************************************************************************)
(* App::run: one run of the program over a configuration, a flake (the     *)
(* evaluator's answers) and a builder whose results are not determined.    *)
(***************************************************************************)

\* The build outputs a configuration lists, in its order
OutputsMenu == {<<<<"c", "h", "e", "c", "k", "s">>, <<"p", "a", "c", "k", "a", "g", "e", "s">>>>, <<<<"p", "a", "c", "k", "a", "g", "e", "s">>, <<"c", "h", "e", "c", "k", "s">>>>,
                <<<<"c", "h", "e", "c", "k", "s">>, <<"p", "a", "c", "k", "a", "g", "e", "s">>, <<"d", "e", "v", "S", "h", "e", "l", "l", "s">>>>,
                <<<<"p", "a", "c", "k", "a", "g", "e", "s">>, <<"c", "h", "e", "c", "k", "s">>, <<"p", "a", "c", "k", "a", "g", "e", "s">>>>}
\* The systems a configuration lists
SystemsMenu == {{x86_linux}, {x86_linux, x86_darwin}, {x86_darwin}}
\* The attribute names of the model's flakes, per output, in the order
\* builtins.attrNames lists them (sorted)
PackageNames == <<<<"F", "o", "o">>, <<"f", "o", "o">>>>
CheckNames == <<<<"f", "m", "t", "-", "f", "o", "o">>, <<"p", "k", "g", "-", "f", "o", "o">>, <<"p", "k", "g", "s", "-", "f", "o", "o">>, <<"s", "h", "e", "l", "l", "-", "f", "o", "o">>>>
ShellNames == <<<<"d", "e", "v">>>>

\* The subsequences of at most n elements of the sequence u
RECURSIVE SubLists(_, _)
SubLists(u, n) ==
    IF u = <<>> \/ n = 0 THEN {<<>>}
    ELSE SubLists(Tail(u), n) \cup {<<Head(u)>> \o q : q \in SubLists(Tail(u), n - 1)}

\* The answers an evaluator may give for an output whose attributes are among
\* u: no such entry, or up to MaxAttrs of the names
Answers(u) == {NotFound} \cup {Found(q) : q \in SubLists(u, MaxAttrs)}

Configured(outputs, c) == \E k \in 1..Len(outputs) : outputs[k] = c

RInit ==
    /\ GIdle
    /\ TIdle
    /\ PIdle
    /\ buildSection \in {Absent, Unset}
    /\ target = CHOOSE t \in Targets : TRUE
    /\ cpc = "idle"
    /\ artifacts = load_artifacts(buildSection)
    /\ saved = FALSE
    /\ savedFront = FALSE
    /\ dry_run \in BOOLEAN
    /\ cfg_outputs \in OutputsMenu
    /\ cfg_systems \in SystemsMenu
    /\ \E pa \in Answers(PackageNames), ca \in Answers(CheckNames),
          da \in IF Configured(cfg_outputs, <<"d", "e", "v", "S", "h", "e", "l", "l", "s">>) THEN Answers(ShellNames) ELSE {NotFound} :
            eval_attrs = [c \in Categories |->
                            CASE c = <<"p", "a", "c", "k", "a", "g", "e", "s">> -> pa
                              [] c = <<"c", "h", "e", "c", "k", "s">> -> ca
                              [] OTHER -> da]
    /\ eval_log = <<>>
    /\ rpc = "start"
    /\ sys_todo = {}
    /\ rchains = <<>>
    /\ ci = 1
    /\ ni = 1
    /\ have_ran = {}
    /\ all_succeeded = TRUE
    /\ summary = new_summary
    /\ build_log = <<>>
    /\ out_dir \in {"none", "stale"}
    /\ links = <<>>
    /\ ba_result = FALSE
    /\ run_result = FALSE
    /\ exit_status = <<>>

inputs == <<dry_run, cfg_outputs, cfg_systems, eval_attrs, cvars, gpc, lastOp, gchains, ndeps, allOk, tvars, pvars>>

\* run up to build_all that removes an old artifact directory in a dry run too
RunStartRemoving ==
    /\ rpc = "start"
    /\ rpc' = "systems"
    /\ sys_todo' = cfg_systems
    /\ out_dir' = "fresh"
    /\ UNCHANGED <<inputs, exit_status, eval_log, graph, rchains, ci, ni, have_ran, all_succeeded, summary,
                   build_log, links, ba_result, run_result>>

\* run up to the call of build_all (lines 396-425): the versions are queried,
\* an old artifact directory is removed unless this is a dry run, the
\* directory is created
RunStart ==
    /\ rpc = "start"
    /\ rpc' = "systems"
    /\ sys_todo' = cfg_systems
    /\ out_dir' = IF out_dir = "stale" /\ dry_run THEN "stale" ELSE "fresh"
    /\ UNCHANGED <<inputs, exit_status, eval_log, graph, rchains, ci, ni, have_ran, all_succeeded, summary,
                   build_log, links, ba_result, run_result>>

\* run fails before build_all: a version query, the cachix setup or the
\* directory handling returned an error; an old artifact directory is then
\* still there, or removed if this is no dry run (lines 396-417)
RunStartFatal ==
    /\ rpc = "start"
    /\ rpc' = "fatal"
    /\ out_dir' \in IF out_dir = "stale" /\ ~dry_run THEN {"stale", "none"} ELSE {out_dir}
    /\ UNCHANGED <<inputs, exit_status, eval_log, graph, sys_todo, rchains, ci, ni, have_ran, all_succeeded, summary,
                   build_log, links, ba_result, run_result>>

\* A skip of a system that registers the system with the summary
SkipSystemRegistered(system) ==
    /\ rpc = "systems"
    /\ system \in sys_todo
    /\ system # host
    /\ sys_todo' = sys_todo \ {system}
    /\ summary' = [summary EXCEPT !.skipped_outputs = Append(@, system_to_string(system))]
    /\ UNCHANGED <<inputs, exit_status, eval_log, graph, rpc, rchains, ci, ni, have_ran, all_succeeded,
                   build_log, out_dir, links, ba_result, run_result>>

\* build_all: a configured system that is not the host's is skipped (lines 254-258)
SkipSystem(system) ==
    /\ rpc = "systems"
    /\ system \in sys_todo
    /\ system # host
    /\ sys_todo' = sys_todo \ {system}
    /\ UNCHANGED <<inputs, exit_status, eval_log, graph, rpc, rchains, ci, ni, have_ran, all_succeeded, summary,
                   build_log, out_dir, links, ba_result, run_result>>

\* What lines 262-286 leave for the host system
resolved == resolve_outputs([sets |-> no_sets, graph |-> new, skipped |-> <<>>],
                            cfg_outputs, host, eval_attrs, 1)

\* build_all for the host system up to the loop over the chains (lines 262-317):
\* the targets are resolved, the checks are marked as prerequisites in the
\* iteration order of the hash sets, the graph is decomposed into chains
Resolve ==
    /\ rpc = "systems"
    /\ host \in sys_todo
    /\ sys_todo' = sys_todo \ {host}
    /\ \E oc \in SeqsOf(resolved.sets[<<"c", "h", "e", "c", "k", "s">>].items),
          op \in SeqsOf(resolved.sets[<<"p", "a", "c", "k", "a", "g", "e", "s">>].items),
          od \in SeqsOf(resolved.sets[<<"d", "e", "v", "S", "h", "e", "l", "l", "s">>].items) :
            LET order == [c \in Categories |->
                            CASE c = <<"c", "h", "e", "c", "k", "s">> -> oc
                              [] c = <<"p", "a", "c", "k", "a", "g", "e", "s">> -> op
                              [] OTHER -> od]
                checks == IF resolved.sets[<<"c", "h", "e", "c", "k", "s">>].present THEN oc ELSE <<>>
                sets == [resolved.sets EXCEPT ![<<"c", "h", "e", "c", "k", "s">>].present = FALSE]
                m == mark_all(resolved.graph, deps_in_order(checks, sets, order, 1), 1)
                diverges == m.res = "Diverge" \/ (m.res = "Ok" /\ chains_idx(m.g) = "Diverge")
            IN  /\ graph' = m.g
                /\ summary' = [summary EXCEPT !.skipped_outputs = @ \o resolved.skipped]
                /\ rpc' = IF diverges THEN "hung"
                          ELSE IF m.res # "Ok" THEN "fatal"
                          ELSE "chains"
                /\ rchains' = IF diverges \/ m.res # "Ok" THEN <<>> ELSE chains(m.g)
    /\ ci' = 1
    /\ ni' = 1
    /\ have_ran' = {}
    /\ eval_log' = eval_log \o [k \in 1..Len(cfg_outputs) |->
                                    [output |-> cfg_outputs[k], system |-> host]]
    /\ UNCHANGED <<inputs, exit_status, all_succeeded, build_log, out_dir, links, ba_result, run_result>>

\* build_all: the evaluator fails on the drvPath of an attribute (line 278)
ResolveFatal ==
    /\ rpc = "systems"
    /\ host \in sys_todo
    /\ \E k \in 1..Len(cfg_outputs) :
        /\ eval_attrs[cfg_outputs[k]].found /\ eval_attrs[cfg_outputs[k]].names # <<>>
        /\ eval_log' = eval_log \o [j \in 1..k |-> [output |-> cfg_outputs[j], system |-> host]]
    /\ rpc' = "fatal"
    /\ UNCHANGED <<inputs, exit_status, graph, sys_todo, rchains, ci, ni, have_ran, all_succeeded, summary,
                   build_log, out_dir, links, ba_result, run_result>>

\* The loops stand at a node
AtNode == rpc = "chains" /\ ci <= Len(rchains)
derivation_at == rchains[ci][ni][1]
path_at == rchains[ci][ni][2]

\* A node that already ran or was blocked is passed over (lines 324-326)
SkipRan ==
    /\ AtNode
    /\ derivation_at \in have_ran
    /\ ci' = next_pos(rchains, ci, ni)[1]
    /\ ni' = next_pos(rchains, ci, ni)[2]
    /\ UNCHANGED <<inputs, exit_status, eval_log, graph, rpc, sys_todo, rchains, have_ran, all_succeeded, summary,
                   build_log, out_dir, links, ba_result, run_result>>

Invocation(status) == [drv |-> derivation_at, path |-> path_at, status |-> status,
                       chain |-> ci, node |-> ni]

\* A dry run that runs the build command all the same and registers its success
BuildSkippedRun ==
    /\ AtNode
    /\ derivation_at \notin have_ran
    /\ dry_run
    /\ build_log' = Append(build_log, Invocation("Success"))
    /\ all_succeeded' = flag_after("Success", all_succeeded)
    /\ summary' = [summary EXCEPT !.successes =
                     Append(@, [output |-> derivation_at.output,
                                job |-> to_string(derivation_at),
                                artifact |-> <<>>])]
    /\ have_ran' = have_ran \cup {derivation_at}
    /\ ci' = next_pos(rchains, ci, ni)[1]
    /\ ni' = next_pos(rchains, ci, ni)[2]
    /\ UNCHANGED <<inputs, exit_status, eval_log, graph, rpc, sys_todo, rchains, out_dir, links, ba_result, run_result>>

\* A dry-run build that forgets to mark the derivation as ran (line 387)
BuildSkippedUnmarked ==
    /\ AtNode
    /\ derivation_at \notin have_ran
    /\ dry_run
    /\ build_log' = Append(build_log, Invocation("Skipped"))
    /\ all_succeeded' = flag_after("Skipped", all_succeeded)
    /\ summary' = [summary EXCEPT !.skips = Append(@, [output |-> derivation_at.output,
                                                       job |-> to_string(derivation_at)])]
    /\ have_ran' = have_ran
    /\ ci' = next_pos(rchains, ci, ni)[1]
    /\ ni' = next_pos(rchains, ci, ni)[2]
    /\ UNCHANGED <<inputs, exit_status, eval_log, graph, rpc, sys_todo, rchains, out_dir, links, ba_result, run_result>>

\* The build is not run in a dry run: Status::Skipped (nix.rs:52-54, lines 336-338)
BuildSkipped ==
    /\ AtNode
    /\ derivation_at \notin have_ran
    /\ dry_run
    /\ build_log' = Append(build_log, Invocation("Skipped"))
    /\ all_succeeded' = flag_after("Skipped", all_succeeded)
    /\ summary' = [summary EXCEPT !.skips = Append(@, [output |-> derivation_at.output,
                                                       job |-> to_string(derivation_at)])]
    /\ have_ran' = have_ran \cup {derivation_at}
    /\ ci' = next_pos(rchains, ci, ni)[1]
    /\ ni' = next_pos(rchains, ci, ni)[2]
    /\ UNCHANGED <<inputs, exit_status, eval_log, graph, rpc, sys_todo, rchains, out_dir, links, ba_result, run_result>>

\* The build command exits with a failure: Status::Fail (lines 339-361). The
\* log command is registered without the quotes around it.
BuildFail ==
    /\ AtNode
    /\ derivation_at \notin have_ran
    /\ ~dry_run
    /\ build_log' = Append(build_log, Invocation("Fail"))
    /\ all_succeeded' = flag_after("Fail", all_succeeded)
    /\ LET b == block_rest(rchains[ci], ni, have_ran, summary.blocks, derivation_at)
       IN  /\ summary' = [summary EXCEPT
                            !.fails = Append(@, [output |-> derivation_at.output,
                                                 job |-> to_string(derivation_at),
                                                 log_command |-> <<"n", "i", "x", " ", "l", "o", "g", " ">> \o path_at]),
                            !.blocks = b.blocks]
           /\ have_ran' = b.ran
    /\ ci' = break_pos(rchains, ci, ni)[1]
    /\ ni' = break_pos(rchains, ci, ni)[2]
    /\ UNCHANGED <<inputs, exit_status, eval_log, graph, rpc, sys_todo, rchains, out_dir, links, ba_result, run_result>>

\* A successful build that goes on without an artifact when ./result cannot
\* be linked
BuildSuccessUnlinked(staged) ==
    /\ AtNode
    /\ derivation_at \notin have_ran
    /\ ~dry_run
    /\ build_log' = Append(build_log, Invocation("Success"))
    /\ all_succeeded' = flag_after("Success", all_succeeded)
    /\ LET save == ~dry_run /\ staged /\ save_artifact(artifacts, derivation_at.output, host,
                                                       derivation_at.name)
           link_name == to_string(derivation_at)
       IN  /\ rpc' = rpc
           /\ links' = IF save THEN Append(links, link_name) ELSE links
           /\ summary' = [summary EXCEPT !.successes =
                           Append(@, [output |-> derivation_at.output,
                                      job |-> to_string(derivation_at),
                                      artifact |-> IF save THEN link_name ELSE <<>>])]
           /\ have_ran' = have_ran \cup {derivation_at}
           /\ ci' = next_pos(rchains, ci, ni)[1]
           /\ ni' = next_pos(rchains, ci, ni)[2]
    /\ UNCHANGED <<inputs, exit_status, eval_log, graph, sys_todo, rchains, out_dir, ba_result, run_result>>

\* A successful build that links the result without asking the configuration
BuildSuccessAllLinked(staged) ==
    /\ AtNode
    /\ derivation_at \notin have_ran
    /\ ~dry_run
    /\ build_log' = Append(build_log, Invocation("Success"))
    /\ all_succeeded' = flag_after("Success", all_succeeded)
    /\ LET link_name == to_string(derivation_at)
       IN  IF ~staged
           THEN /\ rpc' = "fatal"
                /\ UNCHANGED <<summary, have_ran, ci, ni, links>>
           ELSE /\ rpc' = rpc
                /\ links' = Append(links, link_name)
                /\ summary' = [summary EXCEPT !.successes =
                                Append(@, [output |-> derivation_at.output,
                                           job |-> to_string(derivation_at),
                                           artifact |-> link_name])]
                /\ have_ran' = have_ran \cup {derivation_at}
                /\ ci' = next_pos(rchains, ci, ni)[1]
                /\ ni' = next_pos(rchains, ci, ni)[2]
    /\ UNCHANGED <<inputs, exit_status, eval_log, graph, sys_todo, rchains, out_dir, ba_result, run_result>>

\* The build command succeeds: Status::Success (lines 362-385). `staged` says
\* whether ./result is a symlink that can be resolved and linked.
BuildSuccess(staged) ==
    /\ AtNode
    /\ derivation_at \notin have_ran
    /\ ~dry_run
    /\ build_log' = Append(build_log, Invocation("Success"))
    /\ all_succeeded' = flag_after("Success", all_succeeded)
    /\ LET save == ~dry_run /\ save_artifact(artifacts, derivation_at.output, host,
                                             derivation_at.name)
           link_name == to_string(derivation_at)
           exists == \E k \in 1..Len(links) : links[k] = link_name
       IN  IF save /\ (~staged \/ exists)
           THEN /\ rpc' = "fatal"
                /\ UNCHANGED <<summary, have_ran, ci, ni, links>>
           ELSE /\ rpc' = rpc
                /\ links' = IF save THEN Append(links, link_name) ELSE links
                /\ summary' = [summary EXCEPT !.successes =
                                Append(@, [output |-> derivation_at.output,
                                           job |-> to_string(derivation_at),
                                           artifact |-> IF save THEN link_name ELSE <<>>])]
                /\ have_ran' = have_ran \cup {derivation_at}
                /\ ci' = next_pos(rchains, ci, ni)[1]
                /\ ni' = next_pos(rchains, ci, ni)[2]
    /\ UNCHANGED <<inputs, exit_status, eval_log, graph, sys_todo, rchains, out_dir, ba_result, run_result>>

\* The build command cannot be run: run_stream returns an error (nix.rs:55)
BuildError ==
    /\ AtNode
    /\ derivation_at \notin have_ran
    /\ ~dry_run
    /\ rpc' = "fatal"
    /\ UNCHANGED <<inputs, exit_status, eval_log, graph, sys_todo, rchains, ci, ni, have_ran, all_succeeded, summary,
                   build_log, out_dir, links, ba_result, run_result>>

\* The loop over the chains of the system ends (line 389)
ChainsDone ==
    /\ rpc = "chains"
    /\ ci > Len(rchains)
    /\ rpc' = "systems"
    /\ UNCHANGED <<inputs, exit_status, eval_log, graph, sys_todo, rchains, ci, ni, have_ran, all_succeeded, summary,
                   build_log, out_dir, links, ba_result, run_result>>

\* build_all returns Ok(all_succeeded) after the last system (line 392)
BuildAllReturn ==
    /\ rpc = "systems"
    /\ sys_todo = {}
    /\ rpc' = "returned"
    /\ ba_result' = all_succeeded
    /\ UNCHANGED <<inputs, exit_status, eval_log, graph, sys_todo, rchains, ci, ni, have_ran, all_succeeded, summary,
                   build_log, out_dir, links, run_result>>

\* run prints the summary and returns what build_all returned (lines 427-438)
RunReturn ==
    /\ rpc = "returned"
    /\ rpc' = "done"
    /\ run_result' = ba_result
    /\ UNCHANGED <<inputs, exit_status, eval_log, graph, sys_todo, rchains, ci, ni, have_ran, all_succeeded, summary,
                   build_log, out_dir, links, ba_result>>

\* An exit status that tells an error from a boolean only
exit_code_of_error(result) == IF result.ok THEN 0 ELSE 1

\* The exit status main gives for what run returned (main.rs:67-71): 1 for
\* Ok(false) and, by the runtime, for an error
exit_code(result) == IF result.ok /\ result.val THEN 0 ELSE 1

\* main ends with what run returned, a boolean or an error (main.rs:67-71)
MainExit ==
    /\ rpc \in {"done", "fatal"}
    /\ exit_status = <<>>
    /\ exit_status' = <<exit_code(IF rpc = "done" THEN Ok(run_result) ELSE Err)>>
    /\ UNCHANGED <<inputs, eval_log, graph, rpc, sys_todo, rchains, ci, ni, have_ran, all_succeeded,
                   summary, build_log, out_dir, links, ba_result, run_result>>

RNext ==
    \/ RunStart
    \/ RunStartFatal
    \/ \E system \in sys_todo : SkipSystem(system)
    \/ Resolve
    \/ ResolveFatal
    \/ SkipRan
    \/ BuildSkipped
    \/ BuildFail
    \/ \E staged \in BOOLEAN : BuildSuccess(staged)
    \/ BuildError
    \/ ChainsDone
    \/ BuildAllReturn
    \/ RunReturn
    \/ MainExit

SpecRun == RInit /\ [][RNext]_vars

(***************************************************************************)
(* A client of the conversions: a System or a Derivation is written with   *)
(* Display and the text read back with from_str; a text is read with       *)
(* from_str and the value written again; a check is classified.            *)
(***************************************************************************)

\* char::to_uppercase on ASCII
upper_char(c) ==
    IF \E i \in 1..Len(LowerCase) : LowerCase[i] = c
    THEN UpperCase[CHOOSE i \in 1..Len(LowerCase) : LowerCase[i] = c]
    ELSE c

to_uppercase(s) == [i \in 1..Len(s) |-> upper_char(s[i])]
capitalized(s) == [i \in 1..Len(s) |-> IF i = 1 THEN upper_char(s[i]) ELSE s[i]]

\* The plural of a word: the word plus 's' unless it ends in 's'
plural(w) == IF w # <<>> /\ w[Len(w)] = "s" THEN w ELSE w \o <<"s">>

\* The categories and attribute names the conversions are tried on
TCategories == {<<"p", "a", "c", "k", "a", "g", "e", "s">>, <<"c", "h", "e", "c", "k", "s">>}
TNames == {<<"f", "o", "o">>, <<"p", "k", "g", "s", "-", "f", "o", "o">>, <<"f", "o", "o", "_", "1">>}
TDerivations == {Derivation(c, y, n) : c \in TCategories, y \in Systems, n \in TNames}

\* The texts read with from_str: what Display writes, the same without the
\* leading ".#", and texts that are no derivation
TTexts == {to_string(d) : d \in TDerivations}
            \cup {SubSeq(to_string(d), 3, Len(to_string(d))) : d \in TDerivations}
            \cup {<<>>, <<"p", "a", "c", "k", "a", "g", "e", "s", ".", "x", "8", "6", "_", "6", "4", "-", "l", "i", "n", "u", "x">>, <<"p", "a", "c", "k", "a", "g", "e", "s", ".", "x", "8", "6", "_", "6", "4", "-", "l", "i", "n", "u", "x", ".", "f", "o", "o", ".", "b", "a", "r">>}

\* The prefixes of the checks that are classified: the words of the naming
\* convention and their plurals in three letter cases, and other words
TWords == {<<"p", "k", "g">>, <<"p", "a", "c", "k", "a", "g", "e">>, <<"s", "h", "e", "l", "l">>, <<"d", "e", "v", "s", "h", "e", "l", "l">>,
           <<"n", "i", "x", "o", "s">>, <<"n", "i", "x", "o", "s", "c", "o", "n", "f", "i", "g">>, <<"n", "i", "x", "o", "s", "c", "o", "n", "f", "i", "g", "u", "r", "a", "t", "i", "o", "n">>,
           <<"d", "a", "r", "w", "i", "n">>, <<"d", "a", "r", "w", "i", "n", "c", "o", "n", "f", "i", "g">>, <<"d", "a", "r", "w", "i", "n", "c", "o", "n", "f", "i", "g", "u", "r", "a", "t", "i", "o", "n">>,
           <<"h", "o", "m", "e">>, <<"h", "o", "m", "e", "c", "o", "n", "f", "i", "g">>, <<"h", "o", "m", "e", "c", "o", "n", "f", "i", "g", "u", "r", "a", "t", "i", "o", "n">>,
           <<"s", "y", "s", "t", "e", "m">>, <<"s", "y", "s", "t", "e", "m", "c", "o", "n", "f", "i", "g">>, <<"s", "y", "s", "t", "e", "m", "c", "o", "n", "f", "i", "g", "u", "r", "a", "t", "i", "o", "n">>}
TOtherWords == {<<>>, <<"s">>, <<"f", "m", "t">>, <<"l", "i", "n", "t">>, <<"n", "i", "x", "o">>, <<"p", "k", "g", "s", "s">>, <<"c", "h", "e", "c", "k">>, <<"p", "a", "c", "k", "a", "g">>, <<"d", "e", "v", "s", "h", "e", "l">>}
TPrefixes == UNION {{w, to_uppercase(w), capitalized(w)} :
                        w \in TWords \cup {plural(v) : v \in TWords} \cup TOtherWords}
TCheckNames == {p \o <<"-", "f", "o", "o">> : p \in TPrefixes} \cup {<<"l", "i", "n", "t">>, <<"p", "k", "g", "s">>, <<"p", "k", "g", "s", "f", "o", "o">>}

TInit ==
    /\ GIdle
    /\ CIdle
    /\ RIdle
    /\ PIdle
    /\ tpc = "start"
    /\ tkind \in {"system", "derivation", "text", "check"}
    /\ tsystem \in IF tkind = "system" THEN Systems ELSE {x86_linux}
    /\ tderivation \in CASE tkind = "derivation" -> TDerivations
                         [] tkind = "check" -> {Derivation(<<"c", "h", "e", "c", "k", "s">>, host, n) : n \in TCheckNames}
                         [] OTHER -> {Derivation(<<>>, x86_linux, <<>>)}
    /\ ttext \in IF tkind = "text" THEN TTexts ELSE {<<>>}
    /\ tresult = Err
    /\ tshown = <<>>

\* system.to_string()
TShowSystem ==
    /\ tpc = "start"
    /\ tkind = "system"
    /\ tpc' = "shown"
    /\ ttext' = system_to_string(tsystem)
    /\ UNCHANGED <<tkind, tsystem, tderivation, tresult, tshown, gvars, cvars, rvars, pvars>>

\* System::from_str of the text written
TParseSystem ==
    /\ tpc = "shown"
    /\ tkind = "system"
    /\ tpc' = "parsed"
    /\ tresult' = System_from_str(ttext)
    /\ UNCHANGED <<tkind, tsystem, tderivation, ttext, tshown, gvars, cvars, rvars, pvars>>

\* derivation.to_string()
TShowDerivation ==
    /\ tpc = "start"
    /\ tkind = "derivation"
    /\ tpc' = "shown"
    /\ ttext' = to_string(tderivation)
    /\ UNCHANGED <<tkind, tsystem, tderivation, tresult, tshown, gvars, cvars, rvars, pvars>>

\* Derivation::from_str of the text written, or of the text given
TParseDerivation ==
    /\ \/ tpc = "shown" /\ tkind = "derivation"
       \/ tpc = "start" /\ tkind = "text"
    /\ tpc' = "parsed"
    /\ tresult' = Derivation_from_str(ttext)
    /\ UNCHANGED <<tkind, tsystem, tderivation, ttext, tshown, gvars, cvars, rvars, pvars>>

\* to_string() of the derivation from_str returned for the text given
TShowParsed ==
    /\ tpc = "parsed"
    /\ tkind = "text"
    /\ tresult.ok
    /\ tpc' = "written"
    /\ tshown' = to_string(tresult.val)
    /\ UNCHANGED <<tkind, tsystem, tderivation, ttext, tresult, gvars, cvars, rvars, pvars>>

\* get_type_of_check of the check
TClassify ==
    /\ tpc = "start"
    /\ tkind = "check"
    /\ tpc' = "parsed"
    /\ tresult' = get_type_of_check(tderivation)
    /\ UNCHANGED <<tkind, tsystem, tderivation, ttext, tshown, gvars, cvars, rvars, pvars>>

TNext ==
    \/ TShowSystem
    \/ TParseSystem
    \/ TShowDerivation
    \/ TParseDerivation
    \/ TShowParsed
    \/ TClassify

SpecText == TInit /\ [][TNext]_vars

(***************************************************************************)
(* A client of the rules: a pattern is matched with a value, and the text  *)
(* of a rule is read with OutputPath::from_str.                            *)
(***************************************************************************)

\* The names and the patterns over them and over the systems
PNames == {<<"f", "o", "o">>, <<"F", "o", "o">>, <<"f", "o", "r", "m", "a", "t", "t", "e", "r">>, <<"p", "a", "c", "k", "a", "g", "e", "s">>}
PatternsOver(V) == {Any} \cup {Not(v) : v \in V} \cup {Specified(v) : v \in V}

\* A component of a rule text as it is written: '*', '!' and a literal, or a
\* literal
Written(V) == {[form |-> "star", l |-> CHOOSE v \in V : TRUE]}
                \cup {[form |-> f, l |-> v] : f \in {"not", "literal"}, v \in V}

\* The text of a component: a name as it is, a system as Display writes it
component_text(c, of_system) ==
    LET l == IF of_system THEN system_to_string(c.l) ELSE c.l
    IN  CASE c.form = "star" -> <<"*">>
          [] c.form = "not" -> <<"!">> \o l
          [] c.form = "literal" -> l

\* The text of a rule of three components
rule_text(w) ==
    component_text(w[1], FALSE) \o <<".">> \o component_text(w[2], TRUE)
        \o <<".">> \o component_text(w[3], FALSE)

\* The rules written in the model's configurations, and texts that are no rule
WrittenRules == Written({<<"p", "a", "c", "k", "a", "g", "e", "s">>, <<"p", "k", "g", "s", "-", "1">>}) \X Written(Systems) \X Written({<<"f", "o", "r", "m", "a", "t", "t", "e", "r">>, <<"f", "o", "o", "_", "1">>})
NoRuleTexts == {<<>>, <<"p", "a", "c", "k", "a", "g", "e", "s", ".", "*">>, <<"p", "a", "c", "k", "a", "g", "e", "s", ".", "*", ".", "f", "o", "o", ".", "b", "a", "r">>, <<"p", "a", "c", "k", "a", "g", "e", "s", ".", "l", "i", "n", "u", "x", ".", "f", "o", "o">>, <<"*", ".", "*", ".">>, <<"!", ".", "*", ".", "*">>}

PInit ==
    /\ GIdle
    /\ CIdle
    /\ RIdle
    /\ TIdle
    /\ ppc = "start"
    /\ pkind \in {"name", "system", "rule", "text"}
    /\ pattern \in CASE pkind = "name" -> PatternsOver(PNames)
                     [] pkind = "system" -> PatternsOver(Systems)
                     [] OTHER -> {Any}
    /\ pvalue \in CASE pkind = "name" -> PNames
                    [] pkind = "system" -> Systems
                    [] pkind = "rule" -> WrittenRules
                    [] OTHER -> {<<>>}
    /\ pmatched = FALSE
    /\ ptext \in CASE pkind = "rule" -> {rule_text(pvalue)}
                   [] pkind = "text" -> NoRuleTexts
                   [] OTHER -> {<<>>}
    /\ prule = [ok |-> FALSE, val |-> <<>>]

\* Pattern::matches
PMatch ==
    /\ ppc = "start"
    /\ pkind \in {"name", "system"}
    /\ ppc' = "matched"
    /\ pmatched' = Pattern_matches(pattern, pvalue)
    /\ UNCHANGED <<pkind, pattern, pvalue, ptext, prule, gvars, cvars, rvars, tvars>>

\* OutputPath::from_str
PParse ==
    /\ ppc = "start"
    /\ pkind \in {"rule", "text"}
    /\ ppc' = "parsed"
    /\ prule' = OutputPath_from_str(ptext)
    /\ UNCHANGED <<pkind, pattern, pvalue, pmatched, ptext, gvars, cvars, rvars, tvars>>

PNext ==
    \/ PMatch
    \/ PParse

SpecRule == PInit /\ [][PNext]_vars

(***************************************************************************)
(* Properties of the graph                                                 *)
(***************************************************************************)

\* The k-th parent of node i, None when the parent path ends before
RECURSIVE NthParent(_, _, _)
NthParent(parents, i, k) ==
    IF k = 0 \/ i = None THEN i ELSE NthParent(parents, parents[i], k - 1)

\* Node a lies on the parent path of node i (a = i included)
OnParentPath(g, a, i) == \E k \in 0..len(g) : NthParent(g.parents, i, k) = a

Leaves(g) == {i \in 1..len(g) : g.children[i] = <<>>}

\* The places (chain, position) at which node i occurs in the chains cs
Places(cs, i) == {<<k, pos>> \in (1..Len(cs)) \X (1..MaxNodes + 1) :
                    pos <= Len(cs[k]) /\ cs[k][pos] = i}

GraphUsedOk == gpc = "walked" /\ allOk

\* C5 as stated: after add_node and successful mark_dep calls, chains() puts
\* every node of the graph in exactly one chain, at one position.
C5_EachNodeInOneChain ==
    GraphUsedOk => \A i \in 1..len(graph) : Cardinality(Places(gchains, i)) = 1

\* C5 amended: chains() emits one chain per leaf and each leaf occurs once, as
\* the last element of its chain; no chain repeats a node; a node occurs in the
\* chain of exactly the leaves whose parent path passes through it, so chains
\* that share a prerequisite overlap and a node on no leaf's path is in none.
C5_OneChainPerLeaf ==
    GraphUsedOk =>
        /\ Len(gchains) = Cardinality(Leaves(graph))
        /\ \A k \in 1..Len(gchains) :
              /\ gchains[k] # <<>>
              /\ gchains[k][Len(gchains[k])] \in Leaves(graph)
              /\ \A p, q \in 1..Len(gchains[k]) : gchains[k][p] = gchains[k][q] => p = q
              /\ \A i \in 1..len(graph) :
                    (\E p \in 1..Len(gchains[k]) : gchains[k][p] = i)
                        <=> OnParentPath(graph, i, gchains[k][Len(gchains[k])])
        /\ \A i \in Leaves(graph) : Cardinality(Places(gchains, i)) = 1

\* C5 witness: a graph built without error whose chains overlap in a shared
\* parent
C5_Witness ==
    /\ GraphUsedOk
    /\ \E i \in 1..len(graph) : Cardinality(Places(gchains, i)) = 2
    /\ Len(gchains) >= 2

\* The edge just linked to child c closes a cycle of the parent relation
ClosesCycle(parents, c) == \E k \in 1..Len(parents) : NthParent(parents, c, k) = c

\* C6 as stated: a mark_dep call whose new edge closes a cycle of the parent
\* relation, of any length, returns the CycleDetected error.
C6_CycleDetected ==
    (/\ lastOp.op = "mark_dep"
     /\ lastOp.res \notin {"ParentNotInGraph", "ChildNotInGraph", "NotSetUp"}
     /\ ClosesCycle(graph.parents, lastOp.child_index))
        => lastOp.res = "Circular"

\* The graph state after add_node(0..n-1) and mark_dep(i, i+1) for i in 0..n-2
LineGraph(n) ==
    [nodes |-> [i \in 1..n |-> i - 1],
     children |-> [i \in 1..n |-> IF i < n THEN <<i + 1>> ELSE <<>>],
     parents |-> [i \in 1..n |-> IF i = 1 THEN None ELSE i - 1]]

\* C7: for the graph built by adding 0..n-1 and marking i -> i+1, chains()
\* returns the single chain [0, 1, ..., n-1].
C7_SimpleChain ==
    \A n \in 1..MaxNodes :
        (gpc = "walked" /\ graph = LineGraph(n))
            => /\ gchains = <<[i \in 1..n |-> i]>>
               /\ chains(graph) = <<[i \in 1..n |-> i - 1]>>

C7_Witness == gpc = "walked" /\ graph = LineGraph(MaxNodes) /\ allOk /\ MaxNodes >= 3

\* The graph state after add_node(0..n-1) and mark_dep(n-1, i) for i in 0..n-2
StarGraph(n) ==
    [nodes |-> [i \in 1..n |-> i - 1],
     children |-> [i \in 1..n |-> IF i = n THEN [j \in 1..(n - 1) |-> j] ELSE <<>>],
     parents |-> [i \in 1..n |-> IF i = n THEN None ELSE n]]

\* C8: for the graph built by adding 0..n-1 and marking n-1 as the parent of
\* 0..n-2 in that order, chains() returns the n-1 chains [n-1, i], i = 0..n-2.
C8_OneParent ==
    \A n \in 2..MaxNodes :
        (gpc = "walked" /\ graph = StarGraph(n))
            => /\ Len(gchains) = n - 1
               /\ chains(graph) = [i \in 1..(n - 1) |-> <<n - 1, i - 1>>]
               /\ gchains = [i \in 1..(n - 1) |-> <<n, i>>]

C8_Witness == gpc = "walked" /\ graph = StarGraph(MaxNodes) /\ allOk /\ MaxNodes >= 3

\* The payload is the payload of no node of the graph
Absent_in(g, data) == \A i \in 1..len(g) : g.nodes[i] # data

\* C23: a mark_dep call whose parent payload or child payload is not a node of
\* the graph returns an error, and leaves the node list, every child list and
\* every parent pointer as they were.
C23_AbsentNodeRejected ==
    [][\A parent \in 0..MaxNodes, child \in 0..MaxNodes :
          (/\ GMarkDep(parent, child)
           /\ (Absent_in(graph, parent) \/ Absent_in(graph, child)))
              => /\ lastOp'.res \in {"ParentNotInGraph", "ChildNotInGraph"}
                 /\ graph'.nodes = graph.nodes
                 /\ graph'.children = graph.children
                 /\ graph'.parents = graph.parents]_vars

\* C23 witness: mark_dep was refused for an absent child on a graph that has
\* an edge and does not hold every payload
C23_Witness ==
    /\ lastOp.op = "mark_dep"
    /\ lastOp.res = "ChildNotInGraph"
    /\ \E i \in 1..len(graph) : graph.parents[i] # None /\ graph.children[graph.parents[i]] # <<>>
    /\ \E data \in 0..MaxNodes : Absent_in(graph, data)

\* The leaves of the graph in the order of their insertion
RECURSIVE LeavesFrom(_, _)
LeavesFrom(g, i) ==
    IF i > len(g) THEN <<>>
    ELSE (IF g.children[i] = <<>> THEN <<i>> ELSE <<>>) \o LeavesFrom(g, i + 1)

\* C26: for a graph built by add_node and successful mark_dep calls, chains()
\* emits one chain per leaf in the insertion order of the leaves; each chain
\* starts with a node without parent, ends with its leaf, and each node of it
\* is the parent of the next one.
C26_ChainPerLeafInOrder ==
    GraphUsedOk =>
        /\ Len(gchains) = Len(LeavesFrom(graph, 1))
        /\ \A k \in 1..Len(gchains) :
              /\ gchains[k] # <<>>
              /\ gchains[k][Len(gchains[k])] = LeavesFrom(graph, 1)[k]
              /\ graph.parents[gchains[k][1]] = None
              /\ \A p \in 1..(Len(gchains[k]) - 1) :
                    graph.parents[gchains[k][p + 1]] = gchains[k][p]

\* C26 witness: chains() has emitted several chains, one of them longer than
\* its leaf alone and not the first
C26_Witness ==
    /\ GraphUsedOk
    /\ Len(gchains) >= 2
    /\ \E k \in 2..Len(gchains) : Len(gchains[k]) >= 2

\* C29 as stated: whenever a call has returned, j is in the child list of i
\* exactly when the parent pointer of j is i, and the node list, the child
\* lists and the parent pointers have the same length.
C29_ChildrenAgreeWithParents ==
    gpc \in {"build", "walked"} =>
        /\ Len(graph.children) = Len(graph.nodes)
        /\ Len(graph.parents) = Len(graph.nodes)
        /\ \A i \in 1..len(graph), j \in 1..len(graph) :
              (\E p \in 1..Len(graph.children[i]) : graph.children[i][p] = j)
                  <=> graph.parents[j] = i

\* C30 as stated: every mark_dep call returns, with Ok or with an error.
C30_MarkDepReturns ==
    lastOp.op = "mark_dep" => lastOp.res \in {"Ok", "Circular", "ParentNotInGraph", "ChildNotInGraph", "NotSetUp"}

(***************************************************************************)
(* Properties of the artifact rules                                        *)
(***************************************************************************)

\* The decision of the single default rule: category packages, any platform,
\* any name but formatter
DefaultDecision(t) == t.top_level = <<"p", "a", "c", "k", "a", "g", "e", "s">> /\ t.name # <<"f", "o", "r", "m", "a", "t", "t", "e", "r">>

\* C9 as stated: whenever the configured rule list is empty (the build section
\* is absent, or present without artifact rules), save_artifact decides as the
\* default rule does: packages other than formatter are archived, nothing else.
C9_EmptyRulesDefault ==
    (cpc = "asked" /\ buildSection.artifacts = <<>>) => (saved <=> DefaultDecision(target))

\* A pattern matches a value, as the specification defines it
PatternHolds(p, x) ==
    \/ p.kind = "Any"
    \/ p.kind = "Specified" /\ x = p.v
    \/ p.kind = "Not" /\ x # p.v

RuleHolds(r, t) ==
    /\ PatternHolds(r.top_level, t.top_level)
    /\ PatternHolds(r.system, t.system)
    /\ PatternHolds(r.name, t.name)

\* C10: save_artifact is true iff every configured rule matches in all three
\* components, and a target archived under a rule list is archived under the
\* list without its last rule (adding a rule only narrows).
C10_AllRulesMatch ==
    cpc = "asked" =>
        /\ saved <=> \A i \in 1..Len(artifacts) : RuleHolds(artifacts[i], target)
        /\ (artifacts # <<>> /\ saved) => savedFront

\* C10 witness: a list of MaxRules rules whose last rule turns an archived
\* target into an unarchived one
C10_Witness ==
    /\ cpc = "asked"
    /\ Len(artifacts) >= 2
    /\ ~saved
    /\ savedFront

(***************************************************************************)
(* Properties of a run                                                     *)
(***************************************************************************)

\* The builder invocations on a derivation, as positions of build_log
Built(d) == {k \in 1..Len(build_log) : build_log[k].drv = d}

\* The graph of the host system has been built
HostResolved == graph # new

\* The targets of the flake with one package and one check on it
FooCheck == Derivation(<<"c", "h", "e", "c", "k", "s">>, host, <<"p", "k", "g", "s", "-", "f", "o", "o">>)
FooPackage == Derivation(<<"p", "a", "c", "k", "a", "g", "e", "s">>, host, <<"f", "o", "o">>)

\* A run over checks and packages whose evaluator reports packages = {foo}
\* and checks = {pkgs-foo}
FooFlake ==
    /\ Len(cfg_outputs) = 2
    /\ {cfg_outputs[1], cfg_outputs[2]} = {<<"c", "h", "e", "c", "k", "s">>, <<"p", "a", "c", "k", "a", "g", "e", "s">>}
    /\ eval_attrs[<<"p", "a", "c", "k", "a", "g", "e", "s">>] = Found(<<<<"f", "o", "o">>>>)
    /\ eval_attrs[<<"c", "h", "e", "c", "k", "s">>] = Found(<<<<"p", "k", "g", "s", "-", "f", "o", "o">>>>)

\* C1: in a run over checks and packages on the host with packages = {foo}
\* and checks = {pkgs-foo}, the chains are exactly [check, package]; every
\* invocation of the builder on the package follows one on the check; and once
\* the check's build returned Fail the package is registered blocked citing
\* the check, the builder has not been invoked on the package, and build_all
\* and run return false.
C1_CheckGatesPackage ==
    (FooFlake /\ HostResolved) =>
        /\ rchains = << << <<FooCheck, derivation_path(FooCheck)>>,
                           <<FooPackage, derivation_path(FooPackage)>> >> >>
        /\ \A k \in Built(FooPackage) : \E j \in Built(FooCheck) : j < k
        /\ (\E j \in Built(FooCheck) : build_log[j].status = "Fail") =>
              /\ \E b \in 1..Len(summary.blocks) :
                    summary.blocks[b] = [output |-> <<"p", "a", "c", "k", "a", "g", "e", "s">>,
                                         job |-> to_string(FooPackage),
                                         pre_rec |-> to_string(FooCheck)]
              /\ Built(FooPackage) = {}
              /\ rpc \in {"returned", "done"} => ~ba_result
              /\ rpc = "done" => ~run_result

\* C1 witness: that run is over, the check failed and the package is blocked
C1_Witness ==
    /\ FooFlake
    /\ rpc = "done"
    /\ \E j \in Built(FooCheck) : build_log[j].status = "Fail"
    /\ Len(summary.blocks) = 2
    /\ ~run_result

\* C2 as stated: for every prerequisite edge of the host's graph, the builder
\* is invoked on the child only after a build of the parent returned a result
\* other than Fail, and after a build of the parent returned Fail the builder
\* is not invoked on the child.
C2_DependentsWaitForPrerequisite ==
    \A c \in 1..len(graph) :
        parent_of(graph, c) # None =>
            LET child == data_of(graph, c)[1]
                parent == data_of(graph, parent_of(graph, c))[1]
            IN  /\ \A k \in Built(child) :
                      \E j \in Built(parent) : j < k /\ build_log[j].status # "Fail"
                /\ \A j \in Built(parent) :
                      build_log[j].status = "Fail" => \A k \in Built(child) : k < j

\* C3: when build_all has returned, its result is true exactly when no
\* invocation of the builder returned Fail, and run returns the same value.
C3_ResultIffNoFail ==
    /\ rpc \in {"returned", "done"} =>
          (ba_result <=> \A k \in 1..Len(build_log) : build_log[k].status # "Fail")
    /\ rpc = "done" => run_result = ba_result

\* C3 witness: a finished run with a successful and a failed build, returning
\* false
C3_Witness ==
    /\ rpc = "done"
    /\ \E k \in 1..Len(build_log) : build_log[k].status = "Fail"
    /\ \E k \in 1..Len(build_log) : build_log[k].status = "Success"
    /\ ~run_result

\* Place (c, n) of the chains comes before place (c2, n2)
Before(c, n, c2, n2) == c < c2 \/ (c = c2 /\ n < n2)

\* The builder was invoked for place (c, n) of the chains
BuiltAt(c, n) == \E k \in 1..Len(build_log) : build_log[k].chain = c /\ build_log[k].node = n

\* An earlier node of chain c failed
FailBefore(c, n) ==
    \E k \in 1..Len(build_log) :
        build_log[k].chain = c /\ build_log[k].node < n /\ build_log[k].status = "Fail"

\* The derivation d ran at a place before (c, n)
RanEarlier(d, c, n) ==
    \E k \in Built(d) : Before(build_log[k].chain, build_log[k].node, c, n)

\* The derivation d was marked blocked by a failure in a chain before c
BlockedEarlier(d, c) ==
    \E k \in 1..Len(build_log) :
        /\ build_log[k].status = "Fail"
        /\ build_log[k].chain < c
        /\ \E m \in build_log[k].node..Len(rchains[build_log[k].chain]) :
              rchains[build_log[k].chain][m][1] = d

\* C4: a Fail does not end the loops: the builder is invoked in the order of
\* the chains; at every place the loops have passed the builder was invoked
\* exactly when no earlier node of the same chain had failed and the
\* derivation had neither run nor been blocked before; and build_all returns
\* only when the loops have passed every chain.
C4_FailDoesNotStopRun ==
    /\ \A j, k \in 1..Len(build_log) :
          j < k => Before(build_log[j].chain, build_log[j].node,
                          build_log[k].chain, build_log[k].node)
    /\ \A c \in 1..Len(rchains) : \A n \in 1..Len(rchains[c]) :
          Before(c, n, ci, ni) =>
              (BuiltAt(c, n) <=> ~(\/ FailBefore(c, n)
                                   \/ RanEarlier(rchains[c][n][1], c, n)
                                   \/ BlockedEarlier(rchains[c][n][1], c)))
    /\ rpc \in {"returned", "done"} => ci > Len(rchains)

\* C4 witness: a finished run in which a build failed and a node of a later
\* chain was built afterwards
C4_Witness ==
    /\ rpc = "done"
    /\ \E j, k \in 1..Len(build_log) :
          /\ build_log[j].status = "Fail"
          /\ build_log[k].chain > build_log[j].chain

(***************************************************************************)
(* Properties of the conversions                                           *)
(***************************************************************************)

\* C11 as stated: for every System, from_str of the text Display writes
\* succeeds and returns the same System.
C11_SystemRoundTrip ==
    (tkind = "system" /\ tpc = "parsed") => (tresult.ok /\ tresult.val = tsystem)

\* C12 as stated: for every Derivation with valid names, from_str of the text
\* Display writes succeeds and returns the same Derivation; and for a text
\* from_str accepts, Display of the Derivation returned writes that text.
C12_DerivationRoundTrip ==
    /\ (tkind = "derivation" /\ tpc = "parsed") => (tresult.ok /\ tresult.val = tderivation)
    /\ (tkind = "text" /\ tpc = "written") => tshown = ttext

\* The category the naming convention gives a word
CategoryOfWord(w) ==
    CASE w \in {<<"p", "k", "g">>, <<"p", "a", "c", "k", "a", "g", "e">>} -> <<"p", "a", "c", "k", "a", "g", "e", "s">>
      [] w \in {<<"s", "h", "e", "l", "l">>, <<"d", "e", "v", "s", "h", "e", "l", "l">>} -> <<"d", "e", "v", "S", "h", "e", "l", "l", "s">>
      [] w \in {<<"n", "i", "x", "o", "s">>, <<"n", "i", "x", "o", "s", "c", "o", "n", "f", "i", "g">>, <<"n", "i", "x", "o", "s", "c", "o", "n", "f", "i", "g", "u", "r", "a", "t", "i", "o", "n">>} -> <<"n", "i", "x", "o", "s", "C", "o", "n", "f", "i", "g", "u", "r", "a", "t", "i", "o", "n", "s">>
      [] w \in {<<"d", "a", "r", "w", "i", "n">>, <<"d", "a", "r", "w", "i", "n", "c", "o", "n", "f", "i", "g">>, <<"d", "a", "r", "w", "i", "n", "c", "o", "n", "f", "i", "g", "u", "r", "a", "t", "i", "o", "n">>} -> <<"d", "a", "r", "w", "i", "n", "C", "o", "n", "f", "i", "g", "u", "r", "a", "t", "i", "o", "n", "s">>
      [] w \in {<<"h", "o", "m", "e">>, <<"h", "o", "m", "e", "c", "o", "n", "f", "i", "g">>, <<"h", "o", "m", "e", "c", "o", "n", "f", "i", "g", "u", "r", "a", "t", "i", "o", "n">>} -> <<"h", "o", "m", "e", "C", "o", "n", "f", "i", "g", "u", "r", "a", "t", "i", "o", "n", "s">>
      [] w \in {<<"s", "y", "s", "t", "e", "m">>, <<"s", "y", "s", "t", "e", "m", "c", "o", "n", "f", "i", "g">>, <<"s", "y", "s", "t", "e", "m", "c", "o", "n", "f", "i", "g", "u", "r", "a", "t", "i", "o", "n">>} -> <<"s", "y", "s", "t", "e", "m", "C", "o", "n", "f", "i", "g", "s">>

\* The classification the naming convention gives a check name
TypeByConvention(name) ==
    LET sp == split_once(name)
        p == to_lowercase(sp.prefix)
        hits == {w \in TWords : p = w \/ p = plural(w)}
    IN  IF sp.found /\ hits # {} THEN Ok(CategoryOfWord(CHOOSE w \in hits : TRUE))
        ELSE Err

\* C13 as stated: a check whose prefix is a word of the convention or its
\* plural, in any letter case, is classified as the word's category; a check
\* with another prefix or without '-' gets no classification.
C13_ClassifiedByConvention ==
    (tkind = "check" /\ tpc = "parsed") => tresult = TypeByConvention(tderivation.name)

(***************************************************************************)
(* Properties of the resolver                                              *)
(***************************************************************************)

\* The nodes of the host's graph that are checks, and those that are not
CheckNodes == {i \in 1..len(graph) : data_of(graph, i)[1].output = <<"c", "h", "e", "c", "k", "s">>}
TargetNodes == {i \in 1..len(graph) : data_of(graph, i)[1].output # <<"c", "h", "e", "c", "k", "s">>}

\* The check c names the target t: same system, the prefix of c's name
\* classifies to t's category, the rest is t's name but for the letter case
Names(c, t) ==
    /\ c.system = t.system
    /\ split_once(c.name).found
    /\ get_type_of_check(c).ok
    /\ get_type_of_check(c).val = t.output
    /\ to_lowercase(split_once(c.name).suffix) = to_lowercase(t.name)

\* The graph has the check c as the parent of the target t
ParentOf(c, t) ==
    \E i, j \in 1..len(graph) :
        /\ data_of(graph, i)[1] = c
        /\ data_of(graph, j)[1] = t
        /\ parent_of(graph, j) = i

\* Some chain has c before t
OrderedBefore(c, t) ==
    \E k \in 1..Len(rchains) : \E p, q \in 1..Len(rchains[k]) :
        p < q /\ rchains[k][p][1] = c /\ rchains[k][q][1] = t

\* The host's targets are resolved and decomposed into chains
Decomposed == HostResolved /\ rpc \in {"chains", "systems", "returned", "done"}

\* C14 as stated: a check is the prerequisite of a target, and ordered before
\* it, exactly when they have the same system, the check's prefix classifies
\* to the target's category and the rest of its name is the target's name
\* but for the letter case.
C14_LinkedIffNamed ==
    Decomposed =>
        \A i \in CheckNodes, j \in TargetNodes :
            LET c == data_of(graph, i)[1]
                t == data_of(graph, j)[1]
            IN  (ParentOf(c, t) /\ OrderedBefore(c, t)) <=> Names(c, t)

\* The check of node i names no target of the graph
NamesNoTarget(i) ==
    \A j \in TargetNodes : ~Names(data_of(graph, i)[1], data_of(graph, j)[1])

\* C15: a check that is not classified, or whose category has no target it
\* names, has no parent and no child, is alone in one chain and in no other,
\* and is passed to the builder when the loops come to its chain; it has been
\* built when build_all returns.
C15_UnmatchedCheckStandsAlone ==
    Decomposed =>
        \A i \in CheckNodes :
            NamesNoTarget(i) =>
                /\ graph.children[i] = <<>>
                /\ parent_of(graph, i) = None
                /\ \E k \in 1..Len(rchains) :
                      /\ rchains[k] = <<data_of(graph, i)>>
                      /\ \A k2 \in 1..Len(rchains) : \A p \in 1..Len(rchains[k2]) :
                            rchains[k2][p] = data_of(graph, i) => k2 = k
                      /\ Before(k, 1, ci, ni) => BuiltAt(k, 1)
                /\ rpc \in {"returned", "done"} => Built(data_of(graph, i)[1]) # {}

\* C15 witness: a finished run that built a check with an unknown prefix and
\* a check whose category has targets but none of its name
C15_Witness ==
    /\ rpc = "done"
    /\ \E i, i2 \in CheckNodes :
          /\ NamesNoTarget(i)
          /\ NamesNoTarget(i2)
          /\ ~get_type_of_check(data_of(graph, i)[1]).ok
          /\ get_type_of_check(data_of(graph, i2)[1]).ok
          /\ \E j \in TargetNodes :
                data_of(graph, j)[1].output = get_type_of_check(data_of(graph, i2)[1]).val
          /\ Built(data_of(graph, i)[1]) # {}
          /\ Built(data_of(graph, i2)[1]) # {}

\* The loop over the systems has passed the host system without an error
HostPassed ==
    /\ host \in cfg_systems
    /\ host \notin sys_todo
    /\ rpc \in {"chains", "systems", "returned", "done"}

\* The derivation d is registered as blocked
Blocked(d) == \E b \in 1..Len(summary.blocks) : summary.blocks[b].job = to_string(d)

\* C16: an output the evaluator has no entry for is registered with
\* skip_output and has no node in the graph; every other configured output has
\* a node for each of its attributes and is not registered as skipped; the run
\* is not aborted by the skip, every node of the chains is built or blocked
\* when build_all returns, and without a Fail the run returns true.
C16_SkippedOutputOnly ==
    /\ HostPassed =>
          \A k \in 1..Len(cfg_outputs) :
              LET c == cfg_outputs[k]
                  skipped == \E s \in 1..Len(summary.skipped_outputs) :
                                summary.skipped_outputs[s] = c
              IN  IF ~eval_attrs[c].found
                  THEN /\ skipped
                       /\ \A i \in 1..len(graph) : data_of(graph, i)[1].output # c
                  ELSE /\ ~skipped
                       /\ \A n \in 1..Len(eval_attrs[c].names) :
                             \E i \in 1..len(graph) :
                                data_of(graph, i)[1] = Derivation(c, host, eval_attrs[c].names[n])
    /\ (HostPassed /\ rpc \in {"returned", "done"}) =>
          \A k \in 1..Len(rchains) : \A p \in 1..Len(rchains[k]) :
              Built(rchains[k][p][1]) # {} \/ Blocked(rchains[k][p][1])
    /\ (rpc \in {"fatal", "hung"} /\ summary.skipped_outputs # <<>>) => rchains # <<>>
    /\ (rpc = "done" /\ \A k \in 1..Len(build_log) : build_log[k].status # "Fail") => run_result

\* C16 witness: a finished run that skipped an output, built a target of
\* another output listed after it, and returned true
C16_Witness ==
    /\ rpc = "done"
    /\ run_result
    /\ \E s \in 1..Len(summary.skipped_outputs) : summary.skipped_outputs[s] = cfg_outputs[1]
    /\ \E k \in 1..Len(build_log) :
          build_log[k].status = "Success" /\ build_log[k].drv.output = cfg_outputs[2]

\* The jobs registered with the summary
Jobs ==
    {summary.successes[k].job : k \in 1..Len(summary.successes)}
        \cup {summary.fails[k].job : k \in 1..Len(summary.fails)}
        \cup {summary.skips[k].job : k \in 1..Len(summary.skips)}
        \cup {summary.blocks[k].job : k \in 1..Len(summary.blocks)}

\* C17: the evaluator and the builder are invoked for the host system only,
\* the graph holds targets of the host system only and every job and skipped
\* output registered is one of the host system; as long as only other systems
\* have been passed, and in a run whose configuration does not list the host
\* system, nothing is evaluated, built, linked or registered.
C17_OnlyHostSystem ==
    /\ \A k \in 1..Len(eval_log) : eval_log[k].system = host
    /\ \A k \in 1..Len(build_log) : build_log[k].drv.system = host
    /\ \A i \in 1..len(graph) : data_of(graph, i)[1].system = host
    /\ \A j \in Jobs : \E i \in 1..len(graph) : to_string(data_of(graph, i)[1]) = j
    /\ \A s \in 1..Len(summary.skipped_outputs) :
          \E k \in 1..Len(eval_log) : eval_log[k].output = summary.skipped_outputs[s]
    /\ (host \notin cfg_systems \/ host \in sys_todo \/ rpc = "start") =>
          /\ build_log = <<>>
          /\ summary = new_summary
          /\ graph = new
          /\ links = <<>>
    /\ host \notin cfg_systems => eval_log = <<>>

\* C17 witness: a finished run over the host system and another system, with
\* builds
C17_Witness ==
    /\ rpc = "done"
    /\ x86_darwin \in cfg_systems
    /\ host \in cfg_systems
    /\ build_log # <<>>
    /\ eval_log # <<>>

(***************************************************************************)
(* Properties of the artifacts of a run                                    *)
(***************************************************************************)

\* The configuration archives the derivation d in this run
ToSave(d) == ~dry_run /\ save_artifact(artifacts, d.output, d.system, d.name)

\* The artifact directory has a link named after the derivation d
Linked(d) == \E k \in 1..Len(links) : links[k] = to_string(d)

\* C18: a successful build of a target to be saved that left no link (the
\* result of the build was missing or no symlink) is the last invocation of
\* the builder: the run is aborted at that node, which is neither registered
\* nor marked as ran, and build_all and run return no boolean.
C18_MissingResultIsFatal ==
    \A k \in 1..Len(build_log) :
        (build_log[k].status = "Success" /\ ToSave(build_log[k].drv) /\ ~Linked(build_log[k].drv)) =>
            /\ rpc = "fatal"
            /\ k = Len(build_log)
            /\ ci = build_log[k].chain
            /\ ni = build_log[k].node
            /\ build_log[k].drv \notin have_ran
            /\ to_string(build_log[k].drv) \notin Jobs

\* C18 witness: a run aborted at a saved target after an earlier build, with
\* a chain still to come
C18_Witness ==
    /\ rpc = "fatal"
    /\ Len(build_log) >= 2
    /\ build_log[Len(build_log)].status = "Success"
    /\ ToSave(build_log[Len(build_log)].drv)
    /\ ~Linked(build_log[Len(build_log)].drv)
    /\ ci < Len(rchains)

\* The derivations of the graph
Resolved == {data_of(graph, i)[1] : i \in 1..len(graph)}

\* A build of the derivation d returned Success
Succeeded(d) == \E k \in Built(d) : build_log[k].status = "Success"

\* C19 as stated: the artifact directory has a link for a target exactly when
\* its build returned Success, the run is no dry run and save_artifact is true
\* for it; every link is named by the text of a target, and no name is linked
\* twice.
C19_LinkIffSuccessSaved ==
    /\ \A d \in Resolved : Linked(d) <=> (Succeeded(d) /\ ToSave(d))
    /\ \A k \in 1..Len(links) : \E d \in Resolved : links[k] = to_string(d)
    /\ \A j, k \in 1..Len(links) : links[j] = links[k] => j = k

\* The run was aborted at the build of the derivation d
AbortedAt(d) ==
    /\ rpc = "fatal"
    /\ build_log # <<>>
    /\ build_log[Len(build_log)].drv = d
    /\ d \notin have_ran

\* C19 amended: the artifact directory has a link for a target exactly when
\* its build returned Success, the run is no dry run, save_artifact is true
\* for it and the run was not aborted at that build for want of a result to
\* link; every link is named by the text of a target, and no name is linked
\* twice.
C19_LinkIffSavedAndStaged ==
    /\ \A d \in Resolved : Linked(d) <=> (Succeeded(d) /\ ToSave(d) /\ ~AbortedAt(d))
    /\ \A k \in 1..Len(links) : \E d \in Resolved : links[k] = to_string(d)
    /\ \A j, k \in 1..Len(links) : links[j] = links[k] => j = k

\* C19 witness: a finished run with a link for one target and a successful
\* build of another target that is not saved
C19_Witness ==
    /\ rpc = "done"
    /\ \E d, e \in Resolved :
          /\ Linked(d)
          /\ Succeeded(e)
          /\ ~ToSave(e)
          /\ ~Linked(e)

\* C20: in a dry run no step removes an artifact directory that is there from
\* an earlier run; in a run that is no dry run the builder is invoked only
\* after the old directory was removed and a new one created.
C20_OldArtifactDir ==
    /\ [][(dry_run /\ out_dir = "stale") => out_dir' = "stale"]_vars
    /\ []((~dry_run /\ build_log # <<>>) => out_dir = "fresh")

\* C20 witness: a finished dry run that passed targets to the builder, with
\* the artifact directory of an earlier run still there
C20_Witness ==
    /\ rpc = "done"
    /\ dry_run
    /\ out_dir = "stale"
    /\ build_log # <<>>

(***************************************************************************)
(* Properties of the process                                               *)
(***************************************************************************)

\* C21: when the process has ended, its exit status is not zero exactly when
\* run returned false or ended with an error, and zero exactly when run
\* returned true.
C21_ExitStatus ==
    exit_status # <<>> =>
        /\ exit_status[1] # 0 <=> (rpc = "fatal" \/ (rpc = "done" /\ ~run_result))
        /\ exit_status[1] = 0 <=> (rpc = "done" /\ run_result)

\* C21 witness: the process ended with a status that is not zero after run
\* returned false
C21_Witness ==
    /\ exit_status # <<>>
    /\ exit_status[1] # 0
    /\ rpc = "done"
    /\ ~run_result

(***************************************************************************)
(* Properties of the patterns and of the rule texts                        *)
(***************************************************************************)

\* C22: for all values v and x, Any matches x, Specified(v) matches x exactly
\* when x = v, and Not(v) matches x exactly when x # v.
C22_PatternMatches ==
    ppc = "matched" =>
        CASE pattern.kind = "Any" -> pmatched
          [] pattern.kind = "Specified" -> (pmatched <=> pvalue = pattern.v)
          [] pattern.kind = "Not" -> (pmatched <=> pvalue # pattern.v)

\* C22 witness: Not(v) was matched with v and did not match
C22_Witness ==
    /\ ppc = "matched"
    /\ pattern.kind = "Not"
    /\ pvalue = pattern.v
    /\ ~pmatched

\* The pattern a written component stands for
PatternWritten(c) ==
    CASE c.form = "star" -> Any
      [] c.form = "not" -> Not(c.l)
      [] c.form = "literal" -> Specified(c.l)

\* C24 as stated: from_str of a rule text of three components succeeds and
\* returns the rule whose components are Any for '*', Not(l) for '!l' and
\* Specified(l) for the literal l; 'packages.*.!formatter' is read as
\* (Specified(packages), Any, Not(formatter)).
C24_RuleTextParsed ==
    /\ (ppc = "parsed" /\ pkind = "rule") =>
          /\ prule.ok
          /\ prule.val = [top_level |-> PatternWritten(pvalue[1]),
                          system |-> PatternWritten(pvalue[2]),
                          name |-> PatternWritten(pvalue[3])]
    /\ (ppc = "parsed" /\ ptext = <<"p", "a", "c", "k", "a", "g", "e", "s", ".", "*", ".", "!", "f", "o", "r", "m", "a", "t", "t", "e", "r">>) =>
          /\ prule.ok
          /\ prule.val = [top_level |-> Specified(<<"p", "a", "c", "k", "a", "g", "e", "s">>), system |-> Any,
                          name |-> Not(<<"f", "o", "r", "m", "a", "t", "t", "e", "r">>)]

(***************************************************************************)
(* Properties of the loop over the chains                                  *)
(***************************************************************************)

\* The jobs registered as blocked that cite the derivation d
BlockedCiting(d) ==
    {summary.blocks[b].job : b \in {x \in 1..Len(summary.blocks) :
                                      summary.blocks[x].pre_rec = to_string(d)}}

\* The derivation d is registered as failed
Failed(d) == \E f \in 1..Len(summary.fails) : summary.fails[f].job = to_string(d)

\* C25 as stated: when the build of a node returned Fail, the targets
\* registered as blocked citing it are exactly the nodes after it in its chain
\* that had neither run nor been blocked before; the failing node is
\* registered as failed and not as blocked; and no later node of that chain is
\* passed to the builder.
C25_FailBlocksRestOfChain ==
    \A k \in 1..Len(build_log) :
        build_log[k].status = "Fail" =>
            LET c == build_log[k].chain
                n == build_log[k].node
                d == build_log[k].drv
                after == {m \in (n + 1)..Len(rchains[c]) :
                            /\ ~RanEarlier(rchains[c][m][1], c, n)
                            /\ ~BlockedEarlier(rchains[c][m][1], c)}
            IN  /\ BlockedCiting(d) = {to_string(rchains[c][m][1]) : m \in after}
                /\ Failed(d)
                /\ ~Blocked(d)
                /\ \A j \in 1..Len(build_log) :
                      build_log[j].chain = c => build_log[j].node <= n

\* The places of the chains that hold the derivation d
PlacesOf(d) == {<<c, n>> \in (1..Len(rchains)) \X (1..MaxNodes + 1) :
                  n <= Len(rchains[c]) /\ rchains[c][n][1] = d}

\* How often the derivation d is registered as built (success, failure or
\* dry-run skip), and how often as blocked
TimesRegistered(d) ==
    Cardinality({x \in 1..Len(summary.successes) : summary.successes[x].job = to_string(d)})
        + Cardinality({x \in 1..Len(summary.fails) : summary.fails[x].job = to_string(d)})
        + Cardinality({x \in 1..Len(summary.skips) : summary.skips[x].job = to_string(d)})
TimesBlocked(d) ==
    Cardinality({x \in 1..Len(summary.blocks) : summary.blocks[x].job = to_string(d)})

\* C27: the builder is invoked at most once for each target, whatever the
\* number of its places in the chains and of its nodes in the graph; a target
\* is registered at most once as built and at most once as blocked; a target
\* blocked by the failure of another one is never built; and passing over a
\* target that ran or was blocked neither builds nor registers anything.
C27_BuiltAtMostOnce ==
    /\ [](\A d \in Resolved :
            /\ Cardinality(Built(d)) <= 1
            /\ TimesRegistered(d) <= Cardinality(Built(d))
            /\ TimesBlocked(d) <= 1
            /\ (\E b \in 1..Len(summary.blocks) :
                    summary.blocks[b].job = to_string(d) /\ summary.blocks[b].pre_rec # to_string(d))
                  => Built(d) = {})
    /\ [][SkipRan => (build_log' = build_log /\ summary' = summary /\ have_ran' = have_ran)]_vars

\* C27 witness: a finished run in which a target with several places in the
\* chains, two nodes in the graph among them, was built once
C27_Witness ==
    /\ rpc = "done"
    /\ \E d \in Resolved :
          /\ Cardinality(PlacesOf(d)) >= 2
          /\ Cardinality({i \in 1..len(graph) : data_of(graph, i)[1] = d}) >= 2
          /\ Cardinality(Built(d)) = 1

\* C28 as stated: when a run has ended without a fatal error, every target
\* resolved for the host system is registered as success, failure, dry-run
\* skip or blocked.
C28_EveryTargetRegistered ==
    (rpc = "done" /\ HostPassed) => \A d \in Resolved : to_string(d) \in Jobs

\* How often the derivation d is registered as a dry-run skip
TimesSkipped(d) ==
    Cardinality({x \in 1..Len(summary.skips) : summary.skips[x].job = to_string(d)})

\* C31: in a dry run every invocation of the builder returns Skipped without
\* running the build command; nothing is registered as success, failed or
\* blocked and nothing is linked; when build_all has returned, every node of
\* every chain has been passed to the builder once, with outcome Skipped, and
\* is registered exactly once as a dry-run skip; and build_all and run return
\* true.
C31_DryRunOnlySkips ==
    dry_run =>
        /\ \A k \in 1..Len(build_log) : build_log[k].status = "Skipped"
        /\ summary.successes = <<>>
        /\ summary.fails = <<>>
        /\ summary.blocks = <<>>
        /\ links = <<>>
        /\ rpc \in {"returned", "done"} =>
              /\ \A c \in 1..Len(rchains) : \A n \in 1..Len(rchains[c]) :
                    /\ Cardinality(Built(rchains[c][n][1])) = 1
                    /\ TimesSkipped(rchains[c][n][1]) = 1
              /\ ba_result
        /\ rpc = "done" => run_result

\* C31 witness: a finished dry run over a chain of a check and its target and
\* a further chain, returning true
C31_Witness ==
    /\ dry_run
    /\ rpc = "done"
    /\ run_result
    /\ Len(rchains) >= 2
    /\ \E c \in 1..Len(rchains) : Len(rchains[c]) = 2
    /\ Len(summary.skips) >= 3

\* The output of checks
ChecksOutput == <<"c", "h", "e", "c", "k", "s">>

\* The edge from node p to node c has a check as parent and a target of
\* another output and the same system as child
CheckToTarget(p, c) ==
    /\ data_of(graph, p)[1].output = ChecksOutput
    /\ data_of(graph, c)[1].output # ChecksOutput
    /\ data_of(graph, p)[1].system = data_of(graph, c)[1].system

\* C32: every edge the resolver has inserted, as a parent pointer or in a
\* child list, leads from a check to a target of another output and the same
\* system; no check has a parent; the parent relation has no cycle and the
\* resolver does not diverge; and every chain has one or two nodes.
C32_EdgesFromChecksOnly ==
    /\ \A i \in 1..len(graph) :
          /\ parent_of(graph, i) # None => CheckToTarget(parent_of(graph, i), i)
          /\ \A p \in 1..Len(graph.children[i]) : CheckToTarget(i, graph.children[i][p])
          /\ data_of(graph, i)[1].output = ChecksOutput => parent_of(graph, i) = None
          /\ ~ClosesCycle(graph.parents, i)
    /\ rpc # "hung"
    /\ \A c \in 1..Len(rchains) : Len(rchains[c]) \in {1, 2}

\* C32 witness: the resolver has inserted an edge and the chains are one of
\* two nodes and one of a single node
C32_Witness ==
    /\ rpc = "chains"
    /\ \E i \in 1..len(graph) : parent_of(graph, i) # None
    /\ \E c \in 1..Len(rchains) : Len(rchains[c]) = 2
    /\ \E c \in 1..Len(rchains) : Len(rchains[c]) = 1

=============================================================================
